---- MODULE Spec2Model ----
(***************************************************************************)
(* Probe orchestration (ExecuteRun, selectProbes) and weighted scoring     *)
(* (analyzer.Analyze) of the ISP health checker CLI.                       *)
(*                                                                         *)
(* The scorer works on Go float64 values.  Its accumulators are modelled   *)
(* bit-exactly: a non-negative float64 is a 53-bit significand m and an    *)
(* exponent e (value m * 2^e), and every operation rounds to nearest,      *)
(* ties to even, as IEEE 754 binary64 does.                                *)
(***************************************************************************)
EXTENDS Integers, Sequences, FiniteSets, Bags, TLC

(***************************************************************************)
(* Multi-word naturals: three words of 24 bits, least significant first.   *)
(***************************************************************************)
Limb == 4096 * 4096

BnZero == <<0, 0, 0>>

BnOne == <<1, 0, 0>>

BnAdd(a, b) ==
  LET s0 == a[1] + b[1]
      s1 == a[2] + b[2] + (s0 \div Limb)
      s2 == a[3] + b[3] + (s1 \div Limb)
  IN  <<s0 % Limb, s1 % Limb, s2>>

BnGE(a, b) ==
  IF a[3] # b[3] THEN a[3] > b[3]
  ELSE IF a[2] # b[2] THEN a[2] > b[2]
  ELSE a[1] >= b[1]

\* a - b, for a >= b
BnSub(a, b) ==
  LET d0 == a[1] - b[1]
      b0 == IF d0 < 0 THEN 1 ELSE 0
      d1 == a[2] - b[2] - b0
      b1 == IF d1 < 0 THEN 1 ELSE 0
  IN  <<d0 + b0 * Limb, d1 + b1 * Limb, a[3] - b[3] - b1>>

\* a * k, for a small k (k < 128)
BnMul(a, k) ==
  LET p0 == a[1] * k
      p1 == a[2] * k + (p0 \div Limb)
      p2 == a[3] * k + (p1 \div Limb)
  IN  <<p0 % Limb, p1 % Limb, p2>>

BnShl1(a) == BnAdd(a, a)

BnShr1(a) ==
  <<(a[1] \div 2) + (a[2] % 2) * (Limb \div 2),
    (a[2] \div 2) + (a[3] % 2) * (Limb \div 2),
    a[3] \div 2>>

BnOdd(a) == a[1] % 2 = 1

RECURSIVE BnShl(_, _)
BnShl(a, d) == IF d = 0 THEN a ELSE BnShl(BnShl1(a), d - 1)

(***************************************************************************)
(* float64.  k is "num" for a finite value m * 2^e with 2^52 <= m < 2^53   *)
(* (or m = 0, e = 0), "nan" for NaN and "inf" for +Inf.                    *)
(***************************************************************************)
\* the top word of a normalised significand lies in [MantLo, MantHi)
MantLo == 16

MantHi == 32

FNum(m, e) == [k |-> "num", m |-> m, e |-> e]

FZero == FNum(BnZero, 0)

FNaN == [k |-> "nan", m |-> BnZero, e |-> 0]

FInf == [k |-> "inf", m |-> BnZero, e |-> 0]

RECURSIVE NormUp(_, _)
NormUp(n, e) == IF n[3] >= MantLo THEN FNum(n, e) ELSE NormUp(BnShl1(n), e - 1)

\* round to nearest, ties to even: rnd is the last bit shifted out, st the
\* disjunction of the bits below it
RoundEven(n, e, rnd, st) ==
  IF rnd /\ (st \/ BnOdd(n))
  THEN LET n1 == BnAdd(n, BnOne)
       IN  IF n1[3] = MantHi THEN FNum(<<0, 0, MantLo>>, e + 1) ELSE FNum(n1, e)
  ELSE FNum(n, e)

RECURSIVE NormDown(_, _, _, _)
NormDown(n, e, rnd, st) ==
  IF n[3] < MantHi THEN RoundEven(n, e, rnd, st)
  ELSE NormDown(BnShr1(n), e + 1, BnOdd(n), st \/ rnd)

\* the float64 nearest to (n + f) * 2^e, where 0 <= f < 1 and st says f > 0
FRound(n, e, st) ==
  IF n = BnZero THEN FZero
  ELSE IF n[3] < MantLo THEN NormUp(n, e)
  ELSE NormDown(n, e, FALSE, st)

FInt(i) == FRound(<<i, 0, 0>>, 0, FALSE)

MinE(a, b) == IF a.e < b.e THEN a.e ELSE b.e

\* a + b
FAdd(a, b) ==
  IF a.m = BnZero THEN b
  ELSE IF b.m = BnZero THEN a
  ELSE LET e == MinE(a, b)
       IN  FRound(BnAdd(BnShl(a.m, a.e - e), BnShl(b.m, b.e - e)), e, FALSE)

\* a - b, for a >= b
FSub(a, b) ==
  IF b.m = BnZero THEN a
  ELSE LET e == MinE(a, b)
       IN  FRound(BnSub(BnShl(a.m, a.e - e), BnShl(b.m, b.e - e)), e, FALSE)

\* a * float64(i), for a small integer constant i > 0 (NaN and +Inf stay)
FMulInt(a, i) == IF a.k # "num" THEN a ELSE FRound(BnMul(a.m, i), a.e, FALSE)


\* binary long division: s = <<q, r>>, the quotient so far and the remainder
\* (r < d); each step produces one more quotient bit
RECURSIVE DivStep(_, _, _)
DivStep(s, d, n) ==
  IF n = 0 THEN s
  ELSE LET r2 == BnShl1(s[2])
       IN  IF BnGE(r2, d)
           THEN DivStep(<<BnAdd(BnShl1(s[1]), BnOne), BnSub(r2, d)>>, d, n - 1)
           ELSE DivStep(<<BnShl1(s[1]), r2>>, d, n - 1)

\* number of quotient bits computed below the binary point of a.m / b.m
DivBits == 55

\* a / b
FDiv(a, b) ==
  IF b.m = BnZero THEN (IF a.m = BnZero THEN FNaN ELSE FInf)
  ELSE IF a.m = BnZero THEN FZero
  ELSE LET first == BnGE(a.m, b.m)
           s0 == IF first THEN <<BnOne, BnSub(a.m, b.m)>> ELSE <<BnZero, a.m>>
           res == DivStep(s0, b.m, DivBits)
       IN  FRound(res[1], a.e - b.e - DivBits, res[2] # BnZero)

\* a <= b (false when either is NaN)
FLE(a, b) ==
  IF a.k = "nan" \/ b.k = "nan" THEN FALSE
  ELSE IF b.k = "inf" THEN TRUE
  ELSE IF a.k = "inf" THEN FALSE
  ELSE IF a.m = BnZero THEN TRUE
  ELSE IF b.m = BnZero THEN FALSE
  ELSE IF a.e # b.e THEN a.e < b.e
  ELSE BnGE(b.m, a.m)

\* a < b
FLT(a, b) == FLE(a, b) /\ a # b

(***************************************************************************)
(* Probe results and the scorer (package analyzer).                        *)
(***************************************************************************)
StatusOK == "ok"

StatusWarn == "warn"

StatusFail == "fail"

StatusNA == "na"

\* the float64 literals of the weights table
Weight08 == FDiv(FInt(8), FInt(10))

Weight10 == FInt(1)

Weight12 == FDiv(FInt(12), FInt(10))

getProbeWeight(name) ==
  CASE name = "ping" -> Weight10
    [] name = "dns" -> Weight10
    [] name = "traceroute" -> Weight08
    [] name = "interface_stats" -> Weight12
    [] name = "tcp_stats" -> Weight12
    [] name = "socket_stats" -> Weight08
    [] name = "packet_capture" -> Weight10
    [] OTHER -> Weight10

\* what one unit of weight adds to weightedScore, by status
OKPoints == 100

WarnPoints == 60

FailPoints == 0

\* weightedScore += weight * points: the product is rounded, then the sum.
\* (A build that fuses the two into one rounding, as the Go specification
\* allows, computes the same accumulator: the rounded products of this
\* table are the integers 48, 60, 72, 80, 100 and 120.)
Credit(weightedScore, weight, points) == FAdd(weightedScore, FMulInt(weight, points))

\* one iteration of the loop over results: acc = <<totalWeight, weightedScore>>
ScoreStep(acc, p) ==
  LET Added(weight, total) ==
        CASE p.status = StatusOK -> <<total, Credit(acc[2], weight, OKPoints)>>
          [] p.status = StatusWarn -> <<total, Credit(acc[2], weight, WarnPoints)>>
          [] p.status = StatusFail -> <<total, Credit(acc[2], weight, FailPoints)>>
          [] p.status = StatusNA -> <<FSub(total, weight), acc[2]>>
          [] OTHER -> <<total, acc[2]>>
      Weighted(weight) == Added(weight, FAdd(acc[1], weight))
  IN  Weighted(getProbeWeight(p.name))

RECURSIVE ScoreLoop(_, _, _)
ScoreLoop(results, i, acc) ==
  IF i > Len(results) THEN acc
  ELSE ScoreLoop(results, i + 1, ScoreStep(acc, results[i]))

\* mutant: the division without its guard
ScoreOfUnguarded(acc) == FDiv(acc[2], acc[1])

\* score := 0.0; if totalWeight > 0 { score = weightedScore / totalWeight }
ScoreOf(acc) == IF FLT(FZero, acc[1]) THEN FDiv(acc[2], acc[1]) ELSE FZero

(***************************************************************************)
(* Details of a probe result: p.Details is nil or a map from keys to       *)
(* values, each value carrying its dynamic type (what a type assertion     *)
(* sees).  A formatted string is kept as its format and its arguments.     *)
(***************************************************************************)
NoDetails == [nil |-> TRUE]

TFloat == "float64"

TStrings == "[]string"

TAnys == "[]interface{}"

TString == "string"

TMap == "map[string]interface{}"

Typed(t, v) == [t |-> t, v |-> v]

HasKey(m, k) == m # NoDetails /\ k \in DOMAIN m

\* v, ok := m[k].(t)
IsA(m, k, t) == HasKey(m, k) /\ m[k].t = t

\* x, _ := m[k].(float64): the zero value when the assertion fails
FloatOf(m, k) == IF IsA(m, k, TFloat) THEN m[k].v ELSE FZero

Sprintf(format, args) == [format |-> format, args |-> args]

\* string equality
SameText(a, b) == a.format = b.format /\ a.args = b.args

\* a string that is not the result of formatting
Lit(str) == Sprintf("%s", <<str>>)

RECURSIVE Flatten(_)
Flatten(ss) == IF ss = <<>> THEN <<>> ELSE Head(ss) \o Flatten(Tail(ss))

\* the float64 literals of the thresholds
F01 == FDiv(FInt(1), FInt(10))

F05 == FDiv(FInt(5), FInt(10))

\* formatDiagnosis: "[severity] name: message"
formatDiagnosis(p, severity) ==
  LET message == IF p.err = "" THEN Sprintf("%s check %s", <<p.name, severity>>)
                 ELSE Lit(p.err)
  IN  Sprintf("[%s] %s: %s", <<severity, p.name, message>>)

\* the messages of one rule: present when the key holds a float64 above lim
RateIssue(m, k, lim, format) ==
  IF IsA(m, k, TFloat) /\ FLT(lim, m[k].v) THEN <<Sprintf(format, <<m[k].v>>)>> ELSE <<>>

\* extractDetailedDiagnosis
extractDetailedDiagnosis(p) ==
  IF p.details = NoDetails THEN <<>>
  ELSE
    LET d == p.details
        strs == IF IsA(d, "issues", TStrings)
                THEN [i \in 1..Len(d["issues"].v) |->
                        Sprintf("[%s] %s", <<p.name, d["issues"].v[i]>>)]
                ELSE <<>>
        anys == IF IsA(d, "issues", TAnys)
                THEN LET iss == SelectSeq(d["issues"].v, LAMBDA x : x.t = TString)
                     IN  [i \in 1..Len(iss) |-> Sprintf("[%s] %s", <<p.name, iss[i].v>>)]
                ELSE <<>>
        byName ==
          CASE p.name = "interface_stats" ->
                 RateIssue(d, "error_rate_percent", F01,
                           "[interface] packet error rate: %.2f%% (check cables/NIC)")
                 \o RateIssue(d, "drop_rate_percent", F01,
                              "[interface] packet drop rate: %.2f%% (check buffer/congestion)")
            [] p.name = "tcp_stats" ->
                 RateIssue(d, "retransmission_rate", FInt(1),
                           "[tcp] retransmission rate: %.2f%% (network congestion or loss)")
                 \o RateIssue(d, "out_of_order_rate", F05,
                              "[tcp] out-of-order rate: %.2f%% (path instability)")
            [] p.name = "packet_capture" ->
                 IF IsA(d, "stats", TMap)
                 THEN RateIssue(d["stats"].v, "checksum_errors", FZero,
                                "[capture] checksum errors: %.0f (packet corruption detected)")
                      \o RateIssue(d["stats"].v, "malformed_packets", FZero,
                                   "[capture] malformed packets: %.0f (protocol errors)")
                 ELSE <<>>
            [] OTHER -> <<>>
    IN  strs \o anys \o byName

\* mutant: only a failed probe gets its message
DiagStepFailOnly(p) ==
  (IF p.status = StatusFail THEN <<formatDiagnosis(p, "critical")>> ELSE <<>>)
  \o extractDetailedDiagnosis(p)

\* what one iteration of Analyze's loop appends to diag
DiagStep(p) ==
  (CASE p.status = StatusOK -> <<>>
     [] p.status = StatusWarn -> <<formatDiagnosis(p, "warning")>>
     [] p.status = StatusFail -> <<formatDiagnosis(p, "critical")>>
     [] p.status = StatusNA -> <<>>
     [] OTHER -> <<Sprintf("%s: unknown status", <<p.name>>)>>)
  \o extractDetailedDiagnosis(p)

AllSucceeded == Lit("all probes succeeded - no issues detected")

Count(rs, status) == Cardinality({i \in 1..Len(rs) : rs[i].status = status})

PacketProbes == {"interface_stats", "tcp_stats", "packet_capture"}

\* the band messages of generateSummary, without and with packet-level issues
SummaryExcellent == "Network health is excellent - all systems operational"

SummaryGood == "Network health is good with minor issues (%d warnings)"

SummaryGoodPacket == "Network functional with packet-level issues (%d warnings)"

SummaryDegraded == "Network health degraded (%d critical issues, %d warnings)"

SummaryDegradedPacket ==
  "Network degraded - packet corruption or loss detected (%d critical, %d warnings)"

SummaryCritical == "Network health critical (%d failures)"

SummaryCriticalPacket ==
  "Network severely impaired - significant packet issues detected (%d critical)"

\* mutant: a packet-level probe that could not run counts as an issue
packetIssuesAnyNonOK(results) ==
  \E i \in 1..Len(results) :
    results[i].name \in PacketProbes /\ results[i].status # StatusOK

\* packetIssues after the loop of generateSummary
packetIssues(results) ==
  \E i \in 1..Len(results) :
    /\ results[i].name \in PacketProbes
    /\ results[i].status # StatusOK
    /\ results[i].status # StatusNA

\* generateSummary
generateSummary(score, results) ==
  LET critical == Count(results, StatusFail)
      warnings == Count(results, StatusWarn)
  IN  IF FLE(FInt(90), score) THEN Lit(SummaryExcellent)
      ELSE IF FLE(FInt(70), score)
      THEN IF packetIssues(results) THEN Sprintf(SummaryGoodPacket, <<warnings>>)
           ELSE Sprintf(SummaryGood, <<warnings>>)
      ELSE IF FLE(FInt(50), score)
      THEN IF packetIssues(results)
           THEN Sprintf(SummaryDegradedPacket, <<critical, warnings>>)
           ELSE Sprintf(SummaryDegraded, <<critical, warnings>>)
      ELSE IF packetIssues(results) THEN Sprintf(SummaryCriticalPacket, <<critical>>)
           ELSE Sprintf(SummaryCritical, <<critical>>)

\* Analyze: the score (with the two accumulators it was computed from), the
\* summary and the diagnosis messages
Analyze(results) ==
  IF Len(results) = 0
  THEN [score |-> FZero, totalWeight |-> FZero, weightedScore |-> FZero,
        summary |-> Lit("no probes executed"), diag |-> <<Lit("no data")>>]
  ELSE LET Scored(acc, score, diag) ==
             [score |-> score, totalWeight |-> acc[1], weightedScore |-> acc[2],
              summary |-> generateSummary(score, results),
              diag |-> IF Len(diag) = 0 THEN <<AllSucceeded>> ELSE diag]
           Summed(acc) ==
             Scored(acc, ScoreOf(acc),
                    Flatten([i \in 1..Len(results) |-> DiagStep(results[i])]))
       IN  Summed(ScoreLoop(results, 1, <<FZero, FZero>>))

(***************************************************************************)
(* Structured diagnosis (AnalyzeDetailed).                                 *)
(***************************************************************************)
\* the float64 literals of the confidences
Conf080 == FDiv(FInt(80), FInt(100))

Conf085 == FDiv(FInt(85), FInt(100))

Conf090 == FDiv(FInt(90), FInt(100))

Conf095 == FDiv(FInt(95), FInt(100))

DiagnosticResult(component, confidence, explanation, action, severity) ==
  [Component |-> component, Confidence |-> confidence, Explanation |-> explanation,
   SuggestedAction |-> action, Severity |-> severity]

\* mutant: the entry is made whatever the status
analyzePingAlways(p) ==
  <<DiagnosticResult("Connectivity", Conf090,
      Lit("Ping failed - target may be unreachable or blocking ICMP"),
      "Check network connectivity, firewall rules, and target availability",
      "critical")>>

analyzePing(p) ==
  IF p.status = StatusOK THEN <<>>
  ELSE <<DiagnosticResult("Connectivity", Conf090,
           Lit("Ping failed - target may be unreachable or blocking ICMP"),
           "Check network connectivity, firewall rules, and target availability",
           "critical")>>

analyzeDNS(p) ==
  IF p.status = StatusOK THEN <<>>
  ELSE <<DiagnosticResult("DNS", Conf085, Lit("DNS resolution failed"),
           "Check DNS server configuration, try alternate DNS (8.8.8.8, 1.1.1.1)",
           "critical")>>

analyzeInterfaceStats(p) ==
  IF p.details = NoDetails THEN <<>>
  ELSE
    LET errRate == FloatOf(p.details, "error_rate_percent")
        dropRate == FloatOf(p.details, "drop_rate_percent")
    IN  (IF FLT(FInt(1), errRate)
         THEN <<DiagnosticResult("NetworkInterface", Conf090,
                  Sprintf("High packet error rate (%.2f%%) - likely hardware or cable issue",
                          <<errRate>>),
                  "Check network cable connections, test with different cable, check NIC health",
                  "critical")>>
         ELSE IF FLT(F01, errRate)
         THEN <<DiagnosticResult("NetworkInterface", Conf080,
                  Sprintf("Elevated packet error rate (%.2f%%) - possible interference or degraded cable",
                          <<errRate>>),
                  "Inspect cables for damage, check for electromagnetic interference",
                  "warning")>>
         ELSE <<>>)
        \o (IF FLT(FInt(1), dropRate)
            THEN <<DiagnosticResult("NetworkInterface", Conf085,
                     Sprintf("High packet drop rate (%.2f%%) - buffer overflow or congestion",
                             <<dropRate>>),
                     "Check for bandwidth saturation, increase ring buffer size, check for driver issues",
                     "critical")>>
            ELSE <<>>)

analyzeTCPStats(p) ==
  IF p.details = NoDetails THEN <<>>
  ELSE
    LET retransRate == FloatOf(p.details, "retransmission_rate")
        ofoRate == FloatOf(p.details, "out_of_order_rate")
        reorderEvents == FloatOf(p.details, "total_reorder_events")
    IN  (IF FLT(FInt(5), retransRate)
         THEN <<DiagnosticResult("TCPTransport", Conf090,
                  Sprintf("High TCP retransmission rate (%.2f%%) - significant packet loss on network path",
                          <<retransRate>>),
                  "Check for network congestion, faulty equipment along path, or ISP issues",
                  "critical")>>
         ELSE IF FLT(FInt(1), retransRate)
         THEN <<DiagnosticResult("TCPTransport", Conf085,
                  Sprintf("Elevated TCP retransmissions (%.2f%%) - some packet loss occurring",
                          <<retransRate>>),
                  "Monitor for pattern (time of day, specific destinations), check local network first",
                  "warning")>>
         ELSE <<>>)
        \o (IF FLT(FInt(1), ofoRate) \/ FLT(FInt(100), reorderEvents)
            THEN <<DiagnosticResult("TCPTransport", Conf080,
                     Sprintf("Packet reordering detected (%.2f%% OFO, %.0f events) - path instability or load balancing",
                             <<ofoRate, reorderEvents>>),
                     "This may indicate asymmetric routing or multi-path issues, typically not actionable",
                     "warning")>>
            ELSE <<>>)

analyzePacketCapture(p) ==
  IF p.details = NoDetails THEN <<>>
  ELSE IF ~IsA(p.details, "stats", TMap) THEN <<>>
  ELSE
    LET stats == p.details["stats"].v
        checksumErrors == FloatOf(stats, "checksum_errors")
        malformed == FloatOf(stats, "malformed_packets")
        retransmits == FloatOf(stats, "tcp_retransmits")
        ooo == FloatOf(stats, "tcp_out_of_order")
        zeroWindow == FloatOf(stats, "tcp_zero_window")
    IN  (IF FLT(FZero, checksumErrors)
         THEN <<DiagnosticResult("PacketIntegrity", Conf095,
                  Sprintf("Checksum errors detected (%.0f packets) - PACKET CORRUPTION occurring",
                          <<checksumErrors>>),
                  "This is serious: check cables, NIC, switches. May indicate failing hardware",
                  "critical")>>
         ELSE <<>>)
        \o (IF FLT(FZero, malformed)
            THEN <<DiagnosticResult("PacketIntegrity", Conf090,
                     Sprintf("Malformed packets detected (%.0f) - protocol violations or corruption",
                             <<malformed>>),
                     "Check for MTU issues, middlebox interference, or faulty network equipment",
                     "critical")>>
            ELSE <<>>)
        \o (IF FLT(FInt(10), zeroWindow)
            THEN <<DiagnosticResult("TCPFlow", Conf085,
                     Sprintf("TCP zero window events (%.0f) - receiver cannot keep up",
                             <<zeroWindow>>),
                     "The receiving application is overwhelmed, check target server performance",
                     "warning")>>
            ELSE <<>>)
        \o (IF FLT(FInt(50), retransmits) /\ FLT(FInt(20), ooo)
            THEN <<DiagnosticResult("NetworkPath", Conf080,
                     Sprintf("High retransmits (%.0f) with reordering (%.0f) - unstable network path",
                             <<retransmits, ooo>>),
                     "Path is experiencing issues - could be congestion, flapping route, or failing link",
                     "warning")>>
            ELSE <<>>)

analyzeProbeResult(p) ==
  CASE p.name = "ping" -> analyzePing(p)
    [] p.name = "dns" -> analyzeDNS(p)
    [] p.name = "interface_stats" -> analyzeInterfaceStats(p)
    [] p.name = "tcp_stats" -> analyzeTCPStats(p)
    [] p.name = "packet_capture" -> analyzePacketCapture(p)
    [] OTHER -> <<>>

\* mutant: every score below 90 gets the warning entry
OverallWarnBelowNinety(score) ==
  IF FLE(FInt(90), score)
  THEN DiagnosticResult("Overall", FInt(1), Lit("All network probes completed successfully"),
                        "No action required - network is healthy", "info")
  ELSE DiagnosticResult("Overall", Conf090,
                        Lit("Network has significant issues requiring attention"),
                        "Address critical issues identified above", "warning")

\* the overall health entry, by the band of the score
Overall(score) ==
  IF FLE(FInt(90), score)
  THEN DiagnosticResult("Overall", FInt(1), Lit("All network probes completed successfully"),
                        "No action required - network is healthy", "info")
  ELSE IF FLE(FInt(70), score)
  THEN DiagnosticResult("Overall", Conf085, Lit("Network is functional with minor issues"),
                        "Review warnings and monitor for patterns", "info")
  ELSE DiagnosticResult("Overall", Conf090,
                        Lit("Network has significant issues requiring attention"),
                        "Address critical issues identified above", "warning")

\* a message of the simple analysis as a structured entry
NetworkEntry(msg) ==
  DiagnosticResult("Network", Conf080, msg, "Review for potential issues", "info")

\* mutant: the overall health entry is left out
AnalyzeDetailedNoOverall(results) ==
  LET perProbe == Flatten([i \in 1..Len(results) |-> analyzeProbeResult(results[i])])
      Detailed(simple) ==
        LET msgs == SelectSeq(simple.diag, LAMBDA msg : ~SameText(msg, AllSucceeded))
        IN  [score |-> simple.score, summary |-> simple.summary,
             diagnostics |-> perProbe
                               \o [i \in 1..Len(msgs) |-> NetworkEntry(msgs[i])]]
  IN  Detailed(Analyze(results))

\* AnalyzeDetailed: the score and summary of Analyze, and the entries of the
\* per-probe analysis, then the overall entry, then the messages of Analyze
AnalyzeDetailed(results) ==
  LET perProbe == Flatten([i \in 1..Len(results) |-> analyzeProbeResult(results[i])])
      Detailed(simple) ==
        LET msgs == SelectSeq(simple.diag, LAMBDA msg : ~SameText(msg, AllSucceeded))
        IN  [score |-> simple.score, summary |-> simple.summary,
             diagnostics |-> perProbe \o <<Overall(simple.score)>>
                               \o [i \in 1..Len(msgs) |-> NetworkEntry(msgs[i])]]
  IN  Detailed(Analyze(results))

(***************************************************************************)
(* State.                                                                  *)
(***************************************************************************)
VARIABLES
  input,         \* the []probes.Result handed to AnalyzeDetailed
  analysis,      \* what AnalyzeDetailed returned for input, or None
  sim,           \* the file at opts.SimulationPath, or None when the path is empty
  mode,          \* opts.Mode, a sequence of characters
  pc,            \* where ExecuteRun stands
  selected,      \* the probes selectProbes returned, by probe name
  gpc,           \* where each probe goroutine stands
  gres,          \* each probe goroutine's local variable result
  gold,          \* the slice value a goroutine's append has read
  hung,          \* goroutines whose operation never returns on its own
  late,          \* whether a selected probe was undelivered at the deadline
  probeResults,  \* the shared slice the goroutines append to
  mu,            \* the goroutine holding the mutex, 0 when free
  wg,            \* the WaitGroup counter
  done,          \* whether the channel done is closed
  ctxDone,       \* whether ctx.Done() is closed (the deadline has passed)
  calls,         \* how many times each selected probe function was invoked
  probeMetrics,  \* the counter vector of probe events, by <<probe, status>>
  runCounter,    \* the run events recorded
  ret,           \* what ExecuteRun returned, or None
  host,          \* what a probe called on its own finds on the host, or None
  probed         \* the Result that probe returned, or None

svars == <<input, analysis, sim>>

rvars ==
  <<mode, pc, selected, gpc, gres, gold, hung, late, probeResults, mu, wg, done, ctxDone, calls,
    probeMetrics, runCounter, ret>>

pvars == <<host, probed>>

vars == <<svars, rvars, pvars>>

None == [none |-> TRUE]

\* a Result literal that sets Name, Status and Error: Details stays nil
Result(name, status, err) ==
  [name |-> name, status |-> status, err |-> err, details |-> NoDetails]

WithDetails(r, d) == [r EXCEPT !.details = d]

(***************************************************************************)
(* The scorer on its own: every short sequence of probe results.           *)
(***************************************************************************)
MaxResults == 3

ScoreNames == {"traceroute", "interface_stats", "http"}

ScoreStatuses == {StatusOK, StatusWarn, StatusFail, StatusNA, "bogus"}

\* one result of a packet-level probe among Padding results that are OK:
\* the runs in which a single WARN or FAIL leaves the score in a high band
Padding == 4

PaddedInputs ==
  {<<Result("interface_stats", st, "")>> \o [i \in 1..Padding |-> Result("http", StatusOK, "")] :
     st \in ScoreStatuses}

ScoreInputs ==
  UNION {[1..n -> {Result(nm, st, "") : nm \in ScoreNames, st \in ScoreStatuses}] :
           n \in 0..MaxResults}
    \cup PaddedInputs

RunIdle ==
  /\ mode = <<>>
  /\ pc = "idle"
  /\ selected = <<>>
  /\ gpc = <<>>
  /\ gres = <<>>
  /\ gold = <<>>
  /\ hung = {}
  /\ late = FALSE
  /\ probeResults = <<>>
  /\ mu = 0
  /\ wg = 0
  /\ done = "none"
  /\ ctxDone = FALSE
  /\ calls = <<>>
  /\ probeMetrics = EmptyBag
  /\ runCounter = 0
  /\ ret = None

\* no probe is called on its own
ProbeIdle ==
  /\ host = None
  /\ probed = None

InitScore ==
  /\ input \in ScoreInputs
  /\ analysis = None
  /\ sim = None
  /\ RunIdle
  /\ ProbeIdle

CallAnalyze ==
  /\ analysis = None
  /\ pc = "idle"
  /\ analysis' = AnalyzeDetailed(input)
  /\ UNCHANGED <<input, sim, rvars, pvars>>

NextScore == CallAnalyze

SpecScore == InitScore /\ [][NextScore]_vars

(***************************************************************************)
(* Mode strings.  A Go string is modelled as its sequence of characters,   *)
(* so that strings.ToLower does real work.                                 *)
(***************************************************************************)
UpperChars ==
  <<"A", "B", "C", "D", "E", "F", "G", "H", "I", "J", "K", "L", "M",
    "N", "O", "P", "Q", "R", "S", "T", "U", "V", "W", "X", "Y", "Z">>

LowerChars ==
  <<"a", "b", "c", "d", "e", "f", "g", "h", "i", "j", "k", "l", "m",
    "n", "o", "p", "q", "r", "s", "t", "u", "v", "w", "x", "y", "z">>

ToLowerChar(c) ==
  IF \E i \in 1..Len(UpperChars) : UpperChars[i] = c
  THEN LowerChars[CHOOSE i \in 1..Len(UpperChars) : UpperChars[i] = c]
  ELSE c

\* mutant: the mode is compared as given
ToLowerNoop(s) == s

\* strings.ToLower
ToLower(s) == [i \in 1..Len(s) |-> ToLowerChar(s[i])]

\* the case labels of selectProbes
ModePing == <<"p", "i", "n", "g">>

ModeDNS == <<"d", "n", "s">>

ModeTraceroute == <<"t", "r", "a", "c", "e", "r", "o", "u", "t", "e">>

ModeInterface == <<"i", "n", "t", "e", "r", "f", "a", "c", "e">>

ModeInterfaceStats == ModeInterface \o <<"_", "s", "t", "a", "t", "s">>

ModeTCP == <<"t", "c", "p">>

ModeTCPStats == ModeTCP \o <<"_", "s", "t", "a", "t", "s">>

ModeSocket == <<"s", "o", "c", "k", "e", "t">>

ModeSocketStats == ModeSocket \o <<"_", "s", "t", "a", "t", "s">>

ModeCapture == <<"c", "a", "p", "t", "u", "r", "e">>

ModePacket == <<"p", "a", "c", "k", "e", "t">>

ModePacketCapture == ModePacket \o <<"_">> \o ModeCapture

ModePacketHealth == ModePacket \o <<"_", "h", "e", "a", "l", "t", "h">>

ModeFull == <<"f", "u", "l", "l">>

ModeDefault == <<"d", "e", "f", "a", "u", "l", "t">>

ModeEmpty == <<>>

ModeComprehensive ==
  <<"c", "o", "m", "p", "r", "e", "h", "e", "n", "s", "i", "v", "e">>

ModeAll == <<"a", "l", "l">>

\* mutant: an unknown mode falls back to the default probe set
selectProbesDefaulting(m) ==
  CASE m = <<"p", "i", "n", "g">> -> <<"ping">>
    [] m = <<"d", "n", "s">> -> <<"dns">>
    [] m = <<"t", "r", "a", "c", "e", "r", "o", "u", "t", "e">> -> <<"traceroute">>
    [] OTHER -> <<"ping", "dns", "traceroute">>

\* selectProbes: a probe function is named by the probe name it reports;
\* the empty sequence is the nil slice of the default case
selectProbes(m) ==
  CASE m = ModePing -> <<"ping">>
    [] m = ModeDNS -> <<"dns">>
    [] m = ModeTraceroute -> <<"traceroute">>
    [] m \in {ModeInterface, ModeInterfaceStats} -> <<"interface_stats">>
    [] m \in {ModeTCP, ModeTCPStats} -> <<"tcp_stats">>
    [] m \in {ModeSocket, ModeSocketStats} -> <<"socket_stats">>
    [] m \in {ModeCapture, ModePacketCapture} -> <<"packet_capture">>
    [] m \in {ModePacket, ModePacketHealth} ->
         <<"interface_stats", "tcp_stats", "socket_stats", "packet_capture">>
    [] m \in {ModeFull, ModeDefault, ModeEmpty} -> <<"ping", "dns", "traceroute">>
    [] m \in {ModeComprehensive, ModeAll} ->
         <<"ping", "dns", "traceroute", "interface_stats", "tcp_stats",
           "socket_stats", "packet_capture">>
    [] OTHER -> <<>>

(***************************************************************************)
(* The probes of the connectivity modes.  env is what the outside world    *)
(* did: whether the binary exists, how the process or the lookup ended.    *)
(* expired is whether ctx.Err() is DeadlineExceeded when the probe looks.  *)
(***************************************************************************)
\* Details: map[string]interface{}{"raw": string(out)}
RawDetails == [raw |-> Typed(TString, "output")]

RunPing(env, expired) ==
  IF env = "missing" THEN Result("ping", StatusNA, "ping binary not available")
  ELSE IF expired THEN Result("ping", StatusFail, "ping timeout")
  ELSE IF env # "exit0" THEN Result("ping", StatusFail, "output")
  ELSE WithDetails(Result("ping", StatusOK, ""), RawDetails)

RunDNS(env, expired) ==
  IF env = "resolved" THEN Result("dns", StatusOK, "")
  ELSE IF env = "ctx_err" THEN Result("dns", StatusFail, "lookup: i/o timeout")
  ELSE Result("dns", StatusFail, "lookup: no such host")

RunTraceroute(env, expired) ==
  IF env = "missing"
  THEN Result("traceroute", StatusNA, "traceroute/tracepath not available")
  ELSE IF expired THEN Result("traceroute", StatusFail, "traceroute timeout")
  ELSE IF env # "exit0" THEN Result("traceroute", StatusFail, "output")
  ELSE WithDetails(Result("traceroute", StatusOK, ""), RawDetails)

\* what parseSocketStats finds in the output of ss, by how ss ended
SocketsOf(env) ==
  CASE env = "exit0" -> <<>>
    [] env = "exit0_retrans" ->
         <<[Local |-> "a", Remote |-> "b", Retransmits |-> 6, RTTMs |-> 20],
           [Local |-> "a", Remote |-> "c", Retransmits |-> 0, RTTMs |-> 250]>>

\* err of cmd.Output() when ss did not exit with status 0
SsError(env) ==
  CASE env = "exit1" -> "ss command failed: exit status 1"
    [] env = "killed" -> "ss command failed: signal: killed"
    [] env = "killed_ctx" -> "ss command failed: context deadline exceeded"

RunSocketStats(env, expired) ==
  IF env = "unsupported"
  THEN Result("socket_stats", StatusNA, "socket stats only supported on Linux")
  ELSE IF env = "missing" THEN Result("socket_stats", StatusNA, "ss command not available")
  ELSE IF env \in {"exit1", "killed", "killed_ctx"}
  THEN Result("socket_stats", StatusFail, SsError(env))
  ELSE
    LET stats == SocketsOf(env)
        retrans == SelectSeq(stats, LAMBDA x : x.Retransmits > 5)
        issuesOf(x) ==
          (IF x.Retransmits > 5
           THEN <<Sprintf("socket %s->%s: %d retransmits",
                          <<x.Local, x.Remote, x.Retransmits>>)>>
           ELSE <<>>)
          \o (IF x.RTTMs > 200
              THEN <<Sprintf("socket %s->%s: high RTT %.1fms", <<x.Local, x.Remote, x.RTTMs>>)>>
              ELSE <<>>)
        issues == Flatten([i \in 1..Len(stats) |-> issuesOf(stats[i])])
    IN  WithDetails(Result("socket_stats",
                           IF Len(retrans) > 0 THEN StatusWarn ELSE StatusOK, ""),
                    [sockets |-> Typed("[]SocketInfo", stats),
                     issues |-> Typed(TStrings, issues)])

\* the counters of PacketCaptureStats the status depends on
CaptureStats(count, tcp, retransmits, ooo, zeroWindow, malformed, checksum) ==
  [PacketCount |-> count, TCPPackets |-> tcp, TCPRetransmits |-> retransmits,
   TCPOutOfOrder |-> ooo, TCPDuplicateAcks |-> 0, TCPRstPackets |-> 0,
   TCPZeroWindow |-> zeroWindow, MalformedPackets |-> malformed,
   ChecksumErrors |-> checksum, ICMPUnreachable |-> 0]

\* the status RunPacketCapture gives to what parsePacketCapture counted
CaptureStatus(stats) ==
  IF stats.PacketCount > 0
  THEN LET ByReorder(s1) ==
             IF stats.TCPOutOfOrder > 10 /\ s1 # StatusFail THEN StatusWarn ELSE s1
           ByRate(retransRate) ==
             ByReorder(IF stats.TCPPackets > 0 /\ FLT(FInt(5), retransRate)
                       THEN StatusFail
                       ELSE IF stats.TCPPackets > 0 /\ FLT(FInt(1), retransRate)
                       THEN StatusWarn
                       ELSE StatusOK)
       IN  IF stats.MalformedPackets > 0 \/ stats.ChecksumErrors > 0 THEN StatusFail
           ELSE ByRate(FMulInt(FDiv(FInt(stats.TCPRetransmits), FInt(stats.TCPPackets)),
                               100))
  ELSE StatusWarn

\* the issues RunPacketCapture lists for what parsePacketCapture counted
CaptureIssues(stats) ==
  IF stats.PacketCount > 0
  THEN LET ByRate(retransRate) ==
             IF stats.TCPPackets > 0 /\ FLT(FInt(5), retransRate)
             THEN <<Sprintf("high retransmission rate: %.1f%%", <<retransRate>>)>>
             ELSE IF stats.TCPPackets > 0 /\ FLT(FInt(1), retransRate)
             THEN <<Sprintf("elevated retransmissions: %.1f%%", <<retransRate>>)>>
             ELSE <<>>
       IN  ByRate(FMulInt(FDiv(FInt(stats.TCPRetransmits), FInt(stats.TCPPackets)), 100))
           \o (IF stats.TCPOutOfOrder > 10
               THEN <<Sprintf("out-of-order packets: %d", <<stats.TCPOutOfOrder>>)>>
               ELSE <<>>)
           \o (IF stats.TCPDuplicateAcks > 20
               THEN <<Sprintf("duplicate ACKs: %d (possible packet loss)",
                              <<stats.TCPDuplicateAcks>>)>>
               ELSE <<>>)
           \o (IF stats.TCPRstPackets > 10
               THEN <<Sprintf("TCP resets: %d", <<stats.TCPRstPackets>>)>>
               ELSE <<>>)
           \o (IF stats.TCPZeroWindow > 0
               THEN <<Sprintf("TCP zero window events: %d (receiver buffer full)",
                              <<stats.TCPZeroWindow>>)>>
               ELSE <<>>)
           \o (IF stats.MalformedPackets > 0
               THEN <<Sprintf("malformed packets: %d", <<stats.MalformedPackets>>)>>
               ELSE <<>>)
           \o (IF stats.ChecksumErrors > 0
               THEN <<Sprintf("checksum errors: %d (packet corruption)",
                              <<stats.ChecksumErrors>>)>>
               ELSE <<>>)
           \o (IF stats.ICMPUnreachable > 0
               THEN <<Sprintf("ICMP unreachable: %d", <<stats.ICMPUnreachable>>)>>
               ELSE <<>>)
  ELSE <<Lit("no packets captured (check interface/permissions)")>>

\* env.end is how tcpdump ended (it is killed when captureCtx is done, at
\* the capture duration or at the run deadline) and env.stats is what
\* parsePacketCapture counts in the output it left
RunPacketCapture(env, expired) ==
  IF env.end = "unsupported"
  THEN Result("packet_capture", StatusNA,
              "packet capture only supported on Linux and macOS")
  ELSE IF env.end = "missing" THEN Result("packet_capture", StatusNA, "tcpdump not available")
  ELSE IF env.end = "denied"
  THEN Result("packet_capture", StatusNA,
              "insufficient privileges for packet capture (requires root or CAP_NET_RAW)")
  ELSE LET issues == CaptureIssues(env.stats)
           stats == Typed("*PacketCaptureStats", env.stats)
       IN  WithDetails(Result("packet_capture", CaptureStatus(env.stats), ""),
                       IF Len(issues) > 0
                       THEN [stats |-> stats, issues |-> Typed(TStrings, issues)]
                       ELSE [stats |-> stats])

\* what tcpdump can have captured
CaptureOutputs ==
  {CaptureStats(0, 0, 0, 0, 0, 0, 0), CaptureStats(100, 80, 0, 0, 0, 0, 0),
   CaptureStats(100, 80, 2, 0, 1, 0, 0), CaptureStats(100, 80, 0, 0, 0, 0, 1)}

\* how the blocking operation of a probe can end: a command bound to ctx
\* is killed only once ctx is done, a lookup fails with the context's
\* error only once ctx is done, and an operation that never returns on
\* its own (isHung) ends in no other way.  tcpdump is also killed when the
\* capture duration is over
ProbeEnvs(name, isHung, expired) ==
  CASE name = "dns" ->
         (IF isHung THEN {} ELSE {"resolved", "lookup_err"})
           \cup (IF expired THEN {"ctx_err"} ELSE {})
    [] name = "socket_stats" ->
         (IF isHung THEN {}
          ELSE {"unsupported", "missing", "exit0", "exit0_retrans", "exit1"})
           \cup (IF expired THEN {"killed", "killed_ctx"} ELSE {})
    [] name = "packet_capture" ->
         (IF isHung THEN {}
          ELSE {[end |-> e, stats |-> CaptureStats(0, 0, 0, 0, 0, 0, 0)] :
                  e \in {"unsupported", "missing", "denied"}}
                 \cup {[end |-> e, stats |-> st] :
                         e \in {"exit", "killed"}, st \in CaptureOutputs})
           \cup (IF expired
                 THEN {[end |-> "killed", stats |-> st] : st \in CaptureOutputs}
                 ELSE {})
    [] OTHER ->
         (IF isHung THEN {} ELSE {"missing", "exit0", "exit1"})
           \cup (IF expired THEN {"killed"} ELSE {})

RunProbe(name, env, expired) ==
  CASE name = "ping" -> RunPing(env, expired)
    [] name = "dns" -> RunDNS(env, expired)
    [] name = "traceroute" -> RunTraceroute(env, expired)
    [] name = "socket_stats" -> RunSocketStats(env, expired)
    [] name = "packet_capture" -> RunPacketCapture(env, expired)

(***************************************************************************)
(* ExecuteRun, live path (opts.SimulationPath empty).                      *)
(***************************************************************************)
EmptyRun ==
  [run_id |-> "", timestamp |-> "", target |-> "", mode |-> <<>>,
   score |-> FZero, summary |-> Lit(""), probes |-> <<>>, diagnosis |-> <<>>]

toDiagnosis(diag) == [i \in 1..Len(diag) |-> [message |-> diag[i]]]

toDetailedDiagnosis(diag) ==
  [i \in 1..Len(diag) |->
     [component |-> diag[i].Component, confidence |-> diag[i].Confidence,
      explanation |-> diag[i].Explanation,
      suggested_action |-> diag[i].SuggestedAction, severity |-> diag[i].Severity]]

\* the diagnosis stored on a Run: the detailed one, or the simple one when
\* the detailed one is empty
RunDiagnosis(detailedDiag, results) ==
  IF Len(detailedDiag) > 0 THEN toDetailedDiagnosis(detailedDiag)
  ELSE toDiagnosis(Analyze(results).diag)

ErrUnknownMode == "unknown mode"

ErrDeadline == "context deadline exceeded"

\* the score ExecuteRun stores on the Run for the collected results
RunScore(results) == AnalyzeDetailed(results).score

BuildRun(m, results) ==
  LET Analyzed(a) ==
        [run_id |-> "uuid", timestamp |-> "now", target |-> "target", mode |-> m,
         score |-> a.score, summary |-> a.summary,
         probes |-> results, diagnosis |-> RunDiagnosis(a.diagnostics, results)]
  IN  Analyzed(AnalyzeDetailed(results))

Goroutines == 1..Len(selected)

\* selected := selectProbes(strings.ToLower(opts.Mode)); unknown mode returns
ExecSelect ==
  /\ pc = "start"
  /\ sim = None
  /\ LET sel == selectProbes(ToLower(mode))
     IN  /\ selected' = sel
         /\ gpc' = [i \in 1..Len(sel) |-> "new"]
         /\ gres' = [i \in 1..Len(sel) |-> None]
         /\ gold' = [i \in 1..Len(sel) |-> <<>>]
         /\ calls' = [i \in 1..Len(sel) |-> 0]
         /\ IF Len(sel) = 0
            THEN /\ pc' = "returned"
                 /\ ret' = [err |-> ErrUnknownMode, run |-> EmptyRun]
            ELSE /\ pc' = "spawn"
                 /\ ret' = ret
  /\ UNCHANGED <<svars, pvars, mode, hung, late, probeResults, mu, wg, done, ctxDone,
                 probeMetrics, runCounter>>

\* one iteration of the launch loop: wg.Add(1); go func(p) {...}(probeFn)
Spawn(i) ==
  /\ pc = "spawn"
  /\ gpc[i] = "new"
  /\ \A j \in 1..(i - 1) : gpc[j] # "new"
  /\ wg' = wg + 1
  /\ gpc' = [gpc EXCEPT ![i] = "call"]
  /\ UNCHANGED <<svars, pvars, mode, pc, selected, gres, gold, hung, late, probeResults,
                 mu, done, ctxDone, calls, probeMetrics, runCounter, ret>>

\* done := make(chan struct{}); go func() { wg.Wait(); close(done) }()
StartWaiter ==
  /\ pc = "spawn"
  /\ \A i \in Goroutines : gpc[i] # "new"
  /\ done' = "open"
  /\ pc' = "select"
  /\ UNCHANGED <<svars, pvars, mode, selected, gpc, gres, gold, hung, late, probeResults,
                 mu, wg, ctxDone, calls, probeMetrics, runCounter, ret>>

\* the goroutine calls p(ctx, opts.Target); the operation it starts may be
\* one that never returns on its own
ProbeCall(i) ==
  /\ gpc[i] = "call"
  /\ calls' = [calls EXCEPT ![i] = @ + 1]
  /\ gpc' = [gpc EXCEPT ![i] = "run"]
  /\ \E h \in BOOLEAN : hung' = (IF h THEN hung \cup {i} ELSE hung)
  /\ UNCHANGED <<svars, pvars, mode, pc, selected, gres, gold, late, probeResults, mu, wg,
                 done, ctxDone, probeMetrics, runCounter, ret>>

\* RunPacketCapture asks getDefaultInterface for the interface, which runs
\* "ip route show default" (or "route -n get default") with exec.Command,
\* not bound to ctx: when that process never exits, cmd.Output() never
\* returns and nothing ends the process
RouteBlocks(i) ==
  /\ gpc[i] = "run"
  /\ selected[i] = "packet_capture"
  /\ gpc' = [gpc EXCEPT ![i] = "route"]
  /\ UNCHANGED <<svars, pvars, mode, pc, selected, gres, gold, hung, late, probeResults,
                 mu, wg, done, ctxDone, calls, probeMetrics, runCounter, ret>>

\* p(ctx, opts.Target) returns its Result
ProbeReturn(i) ==
  /\ gpc[i] = "run"
  /\ \E env \in ProbeEnvs(selected[i], i \in hung, ctxDone) :
       gres' = [gres EXCEPT ![i] = RunProbe(selected[i], env, ctxDone)]
  /\ gpc' = [gpc EXCEPT ![i] = "metrics"]
  /\ UNCHANGED <<svars, pvars, mode, pc, selected, gold, hung, late, probeResults, mu, wg,
                 done, ctxDone, calls, probeMetrics, runCounter, ret>>

\* mutant: only a failed probe is counted
RecordProbeMetricsFailOnly(i) ==
  /\ gpc[i] = "metrics"
  /\ probeMetrics' = (IF gres[i].status = StatusFail
                      THEN probeMetrics (+) SetToBag({<<gres[i].name, gres[i].status>>})
                      ELSE probeMetrics)
  /\ gpc' = [gpc EXCEPT ![i] = "lock"]
  /\ UNCHANGED <<svars, pvars, mode, pc, selected, gres, gold, hung, late, probeResults,
                 mu, wg, done, ctxDone, calls, runCounter, ret>>

\* recordProbeMetrics(result)
RecordProbeMetrics(i) ==
  /\ gpc[i] = "metrics"
  /\ probeMetrics' = probeMetrics (+) SetToBag({<<gres[i].name, gres[i].status>>})
  /\ gpc' = [gpc EXCEPT ![i] = "lock"]
  /\ UNCHANGED <<svars, pvars, mode, pc, selected, gres, gold, hung, late, probeResults,
                 mu, wg, done, ctxDone, calls, runCounter, ret>>

\* mutant: no mutual exclusion
CanLockAlways(i) == TRUE

\* mu.Lock() returns only when no goroutine holds the mutex
CanLock(i) == mu = 0

Lock(i) ==
  /\ gpc[i] = "lock"
  /\ CanLock(i)
  /\ mu' = i
  /\ gpc' = [gpc EXCEPT ![i] = "read"]
  /\ UNCHANGED <<svars, pvars, mode, pc, selected, gres, gold, hung, late, probeResults,
                 wg, done, ctxDone, calls, probeMetrics, runCounter, ret>>

\* append(probeResults, result) reads the slice ...
AppendRead(i) ==
  /\ gpc[i] = "read"
  /\ gold' = [gold EXCEPT ![i] = probeResults]
  /\ gpc' = [gpc EXCEPT ![i] = "write"]
  /\ UNCHANGED <<svars, pvars, mode, pc, selected, gres, hung, late, probeResults, mu, wg,
                 done, ctxDone, calls, probeMetrics, runCounter, ret>>

\* ... and probeResults = stores the extended slice
AppendWrite(i) ==
  /\ gpc[i] = "write"
  /\ probeResults' = Append(gold[i], gres[i])
  /\ gold' = [gold EXCEPT ![i] = <<>>]
  /\ gpc' = [gpc EXCEPT ![i] = "unlock"]
  /\ UNCHANGED <<svars, pvars, mode, pc, selected, gres, hung, late, mu, wg, done,
                 ctxDone, calls, probeMetrics, runCounter, ret>>

\* mutant: the goroutine goes on without releasing the mutex
UnlockForgotten(i) ==
  /\ gpc[i] = "unlock"
  /\ gpc' = [gpc EXCEPT ![i] = "wgdone"]
  /\ UNCHANGED <<svars, pvars, mode, pc, selected, gres, gold, hung, late, probeResults,
                 mu, wg, done, ctxDone, calls, probeMetrics, runCounter, ret>>

\* mu.Unlock()
Unlock(i) ==
  /\ gpc[i] = "unlock"
  /\ mu' = 0
  /\ gpc' = [gpc EXCEPT ![i] = "wgdone"]
  /\ UNCHANGED <<svars, pvars, mode, pc, selected, gres, gold, hung, late, probeResults,
                 wg, done, ctxDone, calls, probeMetrics, runCounter, ret>>

\* defer wg.Done()
WgDone(i) ==
  /\ gpc[i] = "wgdone"
  /\ wg' = wg - 1
  /\ gpc' = [gpc EXCEPT ![i] = "exit"]
  /\ gres' = [gres EXCEPT ![i] = None]
  /\ UNCHANGED <<svars, pvars, mode, pc, selected, gold, hung, late, probeResults, mu,
                 done, ctxDone, calls, probeMetrics, runCounter, ret>>

\* mutant: the wait ends while one goroutine is still counted
WaitReturnsEarly == wg <= 1

\* wg.Wait() returns when the counter is zero
WaitReturns == wg = 0

\* the waiter goroutine: wg.Wait(); close(done).  ExecuteRun, when blocked
\* in its select, is woken by the close and will take the case <-done
CloseDone ==
  /\ done = "open"
  /\ WaitReturns
  /\ done' = "closed"
  /\ pc' = (IF pc = "blocked" THEN "case_done" ELSE pc)
  /\ UNCHANGED <<svars, pvars, mode, selected, gpc, gres, gold, hung, late,
                 probeResults, mu, wg, ctxDone, calls, probeMetrics, runCounter, ret>>

\* the deadline of ctx passes (it may have passed before ExecuteRun is
\* called).  ExecuteRun, when blocked in its select, is woken by the close
\* of ctx.Done() and will take that case
Deadline ==
  /\ pc \in {"start", "spawn", "select", "blocked", "case_done"}
  /\ ~ctxDone
  /\ ctxDone' = TRUE
  /\ late' = (Len(probeResults) < Len(selectProbes(ToLower(mode))))
  /\ pc' = (IF pc = "blocked" THEN "case_ctx" ELSE pc)
  /\ UNCHANGED <<svars, pvars, mode, selected, gpc, gres, gold, hung, probeResults,
                 mu, wg, done, calls, probeMetrics, runCounter, ret>>

\* select finds neither channel ready and blocks
SelectBlock ==
  /\ pc = "select"
  /\ ~ctxDone
  /\ done # "closed"
  /\ pc' = "blocked"
  /\ UNCHANGED <<svars, pvars, mode, selected, gpc, gres, gold, hung, late, probeResults,
                 mu, wg, done, ctxDone, calls, probeMetrics, runCounter, ret>>

\* case <-ctx.Done(): return RunResult{}, ctx.Err().  A select that finds
\* both channels ready takes either case
SelectCtx ==
  /\ \/ pc = "select" /\ ctxDone
     \/ pc = "case_ctx"
  /\ ret' = [err |-> ErrDeadline, run |-> EmptyRun]
  /\ pc' = "returned"
  /\ UNCHANGED <<svars, pvars, mode, selected, gpc, gres, gold, hung, late, probeResults,
                 mu, wg, done, ctxDone, calls, probeMetrics, runCounter>>

\* case <-done: assemble the RunResult, analyse, recordRunMetrics, return
SelectDone ==
  /\ \/ pc = "select" /\ done = "closed"
     \/ pc = "case_done"
  /\ ret' = [err |-> "", run |-> BuildRun(mode, probeResults)]
  /\ runCounter' = runCounter + 1
  /\ pc' = "returned"
  /\ UNCHANGED <<svars, pvars, mode, selected, gpc, gres, gold, hung, late, probeResults,
                 mu, wg, done, ctxDone, calls, probeMetrics>>

ModeBogus == <<"b", "o", "g", "u", "s">>

\* the modes of the runs explored (those of at most three probes, of the
\* probes that block on an external operation)
RunModes ==
  {ModeFull, <<"P", "i", "n", "g">>, ModeDNS, ModeTraceroute, ModeSocket,
   ModeCapture, ModeBogus}

InitRunWith(modes) ==
  /\ input = <<>>
  /\ analysis = None
  /\ sim = None
  /\ mode \in modes
  /\ pc = "start"
  /\ selected = <<>>
  /\ gpc = <<>>
  /\ gres = <<>>
  /\ gold = <<>>
  /\ hung = {}
  /\ late = FALSE
  /\ probeResults = <<>>
  /\ mu = 0
  /\ wg = 0
  /\ done = "none"
  /\ ctxDone = FALSE
  /\ calls = <<>>
  /\ probeMetrics = EmptyBag
  /\ runCounter = 0
  /\ ret = None
  /\ ProbeIdle

InitRun == InitRunWith(RunModes)

NextRun ==
  \/ ExecSelect
  \/ \E i \in Goroutines : Spawn(i)
  \/ StartWaiter
  \/ \E i \in Goroutines : ProbeCall(i)
  \/ \E i \in Goroutines : RouteBlocks(i)
  \/ \E i \in Goroutines : ProbeReturn(i)
  \/ \E i \in Goroutines : RecordProbeMetrics(i)
  \/ \E i \in Goroutines : Lock(i)
  \/ \E i \in Goroutines : AppendRead(i)
  \/ \E i \in Goroutines : AppendWrite(i)
  \/ \E i \in Goroutines : Unlock(i)
  \/ \E i \in Goroutines : WgDone(i)
  \/ CloseDone
  \/ Deadline
  \/ SelectBlock
  \/ SelectCtx
  \/ SelectDone

SpecRun == InitRun /\ [][NextRun]_vars

(***************************************************************************)
(* The analysis of results that carry details, as a decoded simulation     *)
(* file or a live probe hands them over: every short sequence of results.  *)
(***************************************************************************)
MaxDiag == 2

DiagNames ==
  {"ping", "dns", "traceroute", "interface_stats", "tcp_stats", "socket_stats",
   "packet_capture", "http"}

Statuses == {StatusOK, StatusWarn, StatusFail, StatusNA}

F64(num, den) == Typed(TFloat, FDiv(FInt(num), FInt(den)))

\* results with details, on either side of the thresholds
DetailedResults ==
  {WithDetails(Result("ping", StatusOK, ""), RawDetails),
   Result("ping", StatusFail, "ping timeout"),
   WithDetails(Result("interface_stats", StatusFail, ""),
               [error_rate_percent |-> F64(25, 10), drop_rate_percent |-> F64(0, 1)]),
   WithDetails(Result("interface_stats", StatusWarn, ""),
               [error_rate_percent |-> F64(5, 10), drop_rate_percent |-> F64(1, 10)]),
   WithDetails(Result("tcp_stats", StatusWarn, ""),
               [retransmission_rate |-> F64(3, 1), out_of_order_rate |-> F64(0, 1),
                total_reorder_events |-> F64(0, 1)]),
   WithDetails(Result("tcp_stats", StatusNA, "tcp stats only supported on Linux"),
               [retransmission_rate |-> F64(7, 1)]),
   WithDetails(Result("socket_stats", StatusWarn, ""),
               [issues |-> Typed(TStrings, <<"socket a->b: 6 retransmits">>)]),
   WithDetails(Result("packet_capture", StatusFail, ""),
               [stats |-> Typed(TMap, [checksum_errors |-> F64(1, 1),
                                       malformed_packets |-> F64(0, 1)]),
                issues |-> Typed(TAnys, <<Typed(TString, "checksum errors: 1 (packet corruption)")>>)]),
   WithDetails(Result("packet_capture", StatusOK, ""),
               [stats |-> Typed(TMap, [checksum_errors |-> F64(0, 1),
                                       tcp_zero_window |-> F64(11, 1)])])}

DiagResults ==
  {Result(nm, st, "") : nm \in DiagNames, st \in Statuses} \cup DetailedResults

DiagInputs == UNION {[1..n -> DiagResults] : n \in 0..MaxDiag}

InitDiag ==
  /\ input \in DiagInputs
  /\ analysis = None
  /\ sim = None
  /\ RunIdle
  /\ ProbeIdle

NextDiag == CallAnalyze

SpecDiag == InitDiag /\ [][NextDiag]_vars

(***************************************************************************)
(* ExecuteRun, simulation path (opts.SimulationPath set): loadSimulation.  *)
(* The file is unreadable, or not JSON of a RunResult, or decodes to a     *)
(* RunResult of which any field may be absent (its zero value).            *)
(***************************************************************************)
\* a decoded slice: nil when the file has no such key
NilSlice == [nil |-> TRUE, elems |-> <<>>]

SliceOf(elems) == [nil |-> FALSE, elems |-> elems]

ModeSimulation == <<"s", "i", "m", "u", "l", "a", "t", "i", "o", "n">>

\* mutant: the analysis does not fill the fields the file leaves out
loadSimulationAsIs(file) ==
  IF file.content # "json" THEN [err |-> file.content, run |-> EmptyRun]
  ELSE [err |-> "",
        run |-> [file.run EXCEPT
                   !.probes = IF @.nil THEN <<>> ELSE @.elems]]

loadSimulation(file) ==
  IF file.content # "json" THEN [err |-> file.content, run |-> EmptyRun]
  ELSE
    LET res == file.run
        Analyzed(resProbes, a) ==
          [err |-> "",
           run |-> [run_id |-> IF res.run_id = "" THEN "uuid" ELSE res.run_id,
                    timestamp |-> IF res.timestamp = "" THEN "now" ELSE res.timestamp,
                    target |-> IF res.target = "" THEN "simulation" ELSE res.target,
                    mode |-> IF res.mode = <<>> THEN ModeSimulation ELSE res.mode,
                    score |-> IF res.score = FZero THEN a.score ELSE res.score,
                    summary |-> IF SameText(res.summary, Lit("")) THEN a.summary
                                ELSE res.summary,
                    probes |-> resProbes,
                    diagnosis |-> IF Len(res.diagnosis) = 0
                                  THEN RunDiagnosis(a.diagnostics, resProbes)
                                  ELSE res.diagnosis]]
        Loaded(resProbes) == Analyzed(resProbes, AnalyzeDetailed(resProbes))
    IN  Loaded(IF res.probes.nil THEN <<>> ELSE res.probes.elems)

\* if opts.SimulationPath != "" { return loadSimulation(opts.SimulationPath) }
LoadSimulation ==
  /\ pc = "start"
  /\ sim # None
  /\ ret' = loadSimulation(sim)
  /\ pc' = "returned"
  /\ UNCHANGED <<svars, pvars, mode, selected, gpc, gres, gold, hung, late, probeResults,
                 mu, wg, done, ctxDone, calls, probeMetrics, runCounter>>

SimRuns ==
  [run_id : {"", "r-1"}, timestamp : {"", "2024-01-01T00:00:00Z"},
   target : {"", "example.com"}, mode : {<<>>, ModeFull},
   score : {FZero, FInt(42)}, summary : {Lit(""), Lit("from the file")},
   probes : {NilSlice, SliceOf(<<>>), SliceOf(<<Result("ping", StatusFail, "")>>),
             SliceOf(<<Result("ping", StatusOK, "")>>)},
   diagnosis : {<<>>, <<[message |-> Lit("from the file")]>>}]

\* a file that cannot be read, a file that is not JSON, and JSON files: run is
\* what json.Unmarshal decodes, and the file either writes every key
\* (explicit) or leaves out the keys whose value is the zero value
SimFiles ==
  {[content |-> "unreadable"], [content |-> "invalid"]}
    \cup {[content |-> "json", explicit |-> x, run |-> r] :
            x \in BOOLEAN, r \in SimRuns}

InitSim ==
  /\ input = <<>>
  /\ analysis = None
  /\ sim \in SimFiles
  /\ mode \in {ModeFull, ModeBogus}
  /\ pc = "start"
  /\ selected = <<>>
  /\ gpc = <<>>
  /\ gres = <<>>
  /\ gold = <<>>
  /\ hung = {}
  /\ late = FALSE
  /\ probeResults = <<>>
  /\ mu = 0
  /\ wg = 0
  /\ done = "none"
  /\ ctxDone = FALSE
  /\ calls = <<>>
  /\ probeMetrics = EmptyBag
  /\ runCounter = 0
  /\ ret = None
  /\ ProbeIdle

InitExec == InitRun \/ InitSim

NextExec == NextRun \/ LoadSimulation

\* ExecuteRun on either path
SpecExec == InitExec /\ [][NextExec]_vars

(***************************************************************************)
(* Mode selection on its own: the first step of ExecuteRun, for every      *)
(* recognised mode in three spellings and for near misses.                 *)
(***************************************************************************)
ToUpperChar(c) ==
  IF \E i \in 1..Len(LowerChars) : LowerChars[i] = c
  THEN UpperChars[CHOOSE i \in 1..Len(LowerChars) : LowerChars[i] = c]
  ELSE c

ToUpper(s) == [i \in 1..Len(s) |-> ToUpperChar(s[i])]

Capitalise(s) == [i \in 1..Len(s) |-> IF i = 1 THEN ToUpperChar(s[i]) ELSE s[i]]

RecognisedModes ==
  {ModePing, ModeDNS, ModeTraceroute, ModeInterface, ModeInterfaceStats, ModeTCP,
   ModeTCPStats, ModeSocket, ModeSocketStats, ModeCapture, ModePacketCapture,
   ModePacket, ModePacketHealth, ModeFull, ModeDefault, ModeEmpty,
   ModeComprehensive, ModeAll}

SelectModes ==
  RecognisedModes
    \cup {ToUpper(m) : m \in RecognisedModes}
    \cup {Capitalise(m) : m \in RecognisedModes}
    \cup {m \o <<"s">> : m \in RecognisedModes}
    \cup {SubSeq(m, 1, Len(m) - 1) : m \in RecognisedModes \ {ModeEmpty}}
    \cup {ModeBogus}

InitSelect == InitRunWith(SelectModes)

NextSelect == ExecSelect

SpecSelect == InitSelect /\ [][NextSelect]_vars

(***************************************************************************)
(* The counter probes, each called on its own on a host whose counters     *)
(* are drawn from small sets.                                              *)
(***************************************************************************)
\* float64(num) / float64(den) * 100
Rate(num, den) == FMulInt(FDiv(FInt(num), FInt(den)), 100)

\* the counters of TCPStats the result depends on
TCPStats(inSegs, outSegs, retransSegs, inErrs, ofoQueue, reorderDetected) ==
  [InSegs |-> inSegs, OutSegs |-> outSegs, RetransSegs |-> retransSegs,
   InErrs |-> inErrs, TCPOFOQueue |-> ofoQueue,
   TCPReorderDetected |-> reorderDetected, TCPTSReorder |-> 0, TCPSACKReorder |-> 0,
   TCPRenoReorder |-> 0, TCPAbortOnData |-> 0, TCPAbortOnClose |-> 0,
   TCPAbortOnTimeout |-> 0, TCPAbortOnMemory |-> 0, TCPMemoryPressures |-> 0,
   CurrEstab |-> 1]

\* mutant: the later check lowers a status that was already FAIL
WarnedAlways(status) == StatusWarn

\* if status != StatusFail { status = "warn" }
Warned(status) == IF status # StatusFail THEN StatusWarn ELSE status

RunTCPStats(env) ==
  IF env.os # "linux"
  THEN Result("tcp_stats", StatusNA, "TCP stats only supported on Linux")
  ELSE IF env.snmp # "readable"
  THEN Result("tcp_stats", StatusFail, "failed to read /proc/net/snmp: " \o env.snmp)
  ELSE
    LET stats == env.stats
        totalSegs == stats.InSegs + stats.OutSegs
        totalReorder == stats.TCPReorderDetected + stats.TCPTSReorder
                          + stats.TCPSACKReorder + stats.TCPRenoReorder
        totalAborts == stats.TCPAbortOnData + stats.TCPAbortOnClose
                         + stats.TCPAbortOnTimeout + stats.TCPAbortOnMemory
        reordered(ofoRate) ==
          (totalReorder > 0 \/ stats.TCPOFOQueue > 0) /\ FLT(FInt(1), ofoRate)
        ByRetrans(retransRate) ==
          IF FLT(FInt(5), retransRate) THEN StatusFail
          ELSE IF FLT(FInt(1), retransRate) THEN Warned(StatusOK)
          ELSE StatusOK
        ByError(status, errorRate) ==
          IF FLT(FInt(1), errorRate) THEN StatusFail
          ELSE IF FLT(F01, errorRate) THEN Warned(status)
          ELSE status
        ByReorder(status, ofoRate) ==
          IF reordered(ofoRate) THEN Warned(status) ELSE status
        Issues(retransRate, errorRate, ofoRate) ==
          (IF FLT(FInt(5), retransRate)
           THEN <<Sprintf("high retransmission rate: %.2f%%", <<retransRate>>)>>
           ELSE IF FLT(FInt(1), retransRate)
           THEN <<Sprintf("elevated retransmission rate: %.2f%%", <<retransRate>>)>>
           ELSE <<>>)
          \o (IF FLT(FInt(1), errorRate)
              THEN <<Sprintf("high TCP error rate: %.2f%%", <<errorRate>>)>>
              ELSE IF FLT(F01, errorRate)
              THEN <<Sprintf("elevated TCP error rate: %.2f%%", <<errorRate>>)>>
              ELSE <<>>)
          \o (IF reordered(ofoRate)
              THEN <<Sprintf("packet reordering detected: %d events", <<totalReorder>>)>>
              ELSE <<>>)
          \o (IF totalAborts > 100
              THEN <<Sprintf("connection aborts: %d", <<totalAborts>>)>>
              ELSE <<>>)
          \o (IF stats.TCPMemoryPressures > 0
              THEN <<Sprintf("TCP memory pressure events: %d",
                             <<stats.TCPMemoryPressures>>)>>
              ELSE <<>>)
        Built(status, issues, retransRate, errorRate, ofoRate) ==
          WithDetails(
            Result("tcp_stats", status, ""),
            [k \in {"stats", "retransmission_rate", "error_rate", "out_of_order_rate",
                    "total_reorder_events", "current_connections"}
                     \cup (IF Len(issues) > 0 THEN {"issues"} ELSE {}) |->
               CASE k = "stats" -> Typed("*TCPStats", stats)
                 [] k = "retransmission_rate" -> Typed(TFloat, retransRate)
                 [] k = "error_rate" -> Typed(TFloat, errorRate)
                 [] k = "out_of_order_rate" -> Typed(TFloat, ofoRate)
                 [] k = "total_reorder_events" -> Typed("uint64", totalReorder)
                 [] k = "current_connections" -> Typed("uint64", stats.CurrEstab)
                 [] k = "issues" -> Typed(TStrings, issues)])
        Rated(retransRate, errorRate, ofoRate) ==
          Built(ByReorder(ByError(ByRetrans(retransRate), errorRate), ofoRate),
                Issues(retransRate, errorRate, ofoRate),
                retransRate, errorRate, ofoRate)
    IN  Rated(IF totalSegs > 0 THEN Rate(stats.RetransSegs, stats.OutSegs) ELSE FZero,
              IF totalSegs > 0 THEN Rate(stats.InErrs, stats.InSegs) ELSE FZero,
              IF stats.InSegs > 0 THEN Rate(stats.TCPOFOQueue, stats.InSegs) ELSE FZero)

\* the counters of one line of /proc/net/dev
InterfaceStats(name, rxPackets, txPackets, rxErrors, txErrors, rxDropped) ==
  [Interface |-> name, RxPackets |-> rxPackets, TxPackets |-> txPackets,
   RxErrors |-> rxErrors, TxErrors |-> txErrors, RxCRCErrors |-> 0, RxFrame |-> 0,
   RxDropped |-> rxDropped, TxDropped |-> 0]

\* strings.HasPrefix
HasPrefix(s, prefix) ==
  Len(s) >= Len(prefix) /\ SubSeq(s, 1, Len(prefix)) = prefix

\* loopback and virtual interfaces are skipped
SkippedInterface(name) ==
  \/ name = <<"l", "o">>
  \/ HasPrefix(name, <<"v", "e", "t", "h">>)
  \/ HasPrefix(name, <<"d", "o", "c", "k", "e", "r">>)
  \/ HasPrefix(name, <<"b", "r", "-">>)

\* the loop over the interfaces:
\* acc = <<totalErrors, totalDropped, totalPackets, problemInterfaces>>
RECURSIVE InterfaceTotals(_, _, _)
InterfaceTotals(stats, i, acc) ==
  IF i > Len(stats) THEN acc
  ELSE IF SkippedInterface(stats[i].Interface) THEN InterfaceTotals(stats, i + 1, acc)
  ELSE LET s == stats[i]
           errors == s.RxErrors + s.TxErrors + s.RxCRCErrors + s.RxFrame
           dropped == s.RxDropped + s.TxDropped
           packets == s.RxPackets + s.TxPackets
       IN  InterfaceTotals(stats, i + 1,
             <<acc[1] + errors, acc[2] + dropped, acc[3] + packets,
               IF errors > 0 \/ dropped > 0 THEN Append(acc[4], s.Interface)
               ELSE acc[4]>>)

RunInterfaceStats(env) ==
  IF env.os # "linux"
  THEN Result("interface_stats", StatusNA, "interface stats only supported on Linux")
  ELSE IF env.dev # "readable"
  THEN Result("interface_stats", StatusFail, "failed to open /proc/net/dev: " \o env.dev)
  ELSE
    LET Built(totals, errorRate, dropRate) ==
          WithDetails(
            Result("interface_stats",
                   IF FLT(FInt(1), errorRate) \/ FLT(FInt(1), dropRate) THEN StatusFail
                   ELSE IF FLT(F01, errorRate) \/ FLT(F01, dropRate) THEN StatusWarn
                   ELSE StatusOK,
                   ""),
            [k \in {"interfaces", "total_errors", "total_dropped", "total_packets",
                    "error_rate_percent", "drop_rate_percent"}
                     \cup (IF Len(totals[4]) > 0 THEN {"problem_interfaces"} ELSE {}) |->
               CASE k = "interfaces" -> Typed("[]InterfaceStats", env.stats)
                 [] k = "total_errors" -> Typed("uint64", totals[1])
                 [] k = "total_dropped" -> Typed("uint64", totals[2])
                 [] k = "total_packets" -> Typed("uint64", totals[3])
                 [] k = "error_rate_percent" -> Typed(TFloat, errorRate)
                 [] k = "drop_rate_percent" -> Typed(TFloat, dropRate)
                 [] k = "problem_interfaces" -> Typed(TStrings, totals[4])])
        Totalled(totals) ==
          Built(totals,
                IF totals[3] > 0 THEN Rate(totals[1], totals[3]) ELSE FZero,
                IF totals[3] > 0 THEN Rate(totals[2], totals[3]) ELSE FZero)
    IN  Totalled(InterfaceTotals(env.stats, 1, <<0, 0, 0, <<>>>>))

\* segment counts of a host, and the counter values tried against them
SegCounts == {0, 1000}

RetransCounts == {0, 10, 11, 50, 51}

ErrCounts == {0, 1, 2, 10, 11}

OFOCounts == {0, 10, 11}

TCPHosts ==
  {[probe |-> "tcp_stats", os |-> "darwin", snmp |-> "readable",
    stats |-> TCPStats(0, 0, 0, 0, 0, 0)],
   [probe |-> "tcp_stats", os |-> "linux", snmp |-> "no such file or directory",
    stats |-> TCPStats(0, 0, 0, 0, 0, 0)]}
  \cup {[probe |-> "tcp_stats", os |-> "linux", snmp |-> "readable",
         stats |-> TCPStats(i, o, r, e, q, d)] :
          i \in SegCounts, o \in SegCounts, r \in RetransCounts, e \in ErrCounts,
          q \in OFOCounts, d \in {0, 1}}

PacketCounts == {0, 500}

InterfaceLines ==
  {InterfaceStats(<<"e", "t", "h", "0">>, rx, tx, re, te, rd) :
     rx \in PacketCounts, tx \in PacketCounts, re \in {0, 1, 6}, te \in {0, 5},
     rd \in {0, 1, 11}}

VirtualLines ==
  {InterfaceStats(n, 100, 100, 50, 0, 0) :
     n \in {<<"l", "o">>, <<"v", "e", "t", "h", "1">>, <<"b", "r", "-", "a">>,
            <<"d", "o", "c", "k", "e", "r", "0">>}}

InterfaceHosts ==
  {[probe |-> "interface_stats", os |-> "darwin", dev |-> "readable", stats |-> <<>>],
   [probe |-> "interface_stats", os |-> "linux", dev |-> "permission denied",
    stats |-> <<>>],
   [probe |-> "interface_stats", os |-> "linux", dev |-> "readable", stats |-> <<>>]}
  \cup {[probe |-> "interface_stats", os |-> "linux", dev |-> "readable",
         stats |-> <<l>>] : l \in InterfaceLines}
  \cup {[probe |-> "interface_stats", os |-> "linux", dev |-> "readable",
         stats |-> <<v, l>>] :
          v \in VirtualLines, l \in {InterfaceStats(<<"e", "t", "h", "0">>, rx, 500, re, 0, 0) :
                                       rx \in PacketCounts, re \in {0, 1, 6}}}

\* what tcpdump can have captured on a host, counter by counter
CaptureHosts ==
  {[probe |-> "packet_capture", end |-> e, stats |-> CaptureStats(0, 0, 0, 0, 0, 0, 0)] :
     e \in {"unsupported", "missing", "denied", "exit", "killed"}}
  \cup {[probe |-> "packet_capture", end |-> e,
         stats |-> [CaptureStats(100, 80, r, o, z, m, c) EXCEPT !.TCPDuplicateAcks = d]] :
          e \in {"exit", "killed"}, r \in {0, 1, 4, 5}, o \in {0, 11}, z \in {0, 1},
          m \in {0, 1}, c \in {0, 1}, d \in {0, 21}}

InitProbe ==
  /\ input = <<>>
  /\ analysis = None
  /\ sim = None
  /\ RunIdle
  /\ host \in TCPHosts \cup InterfaceHosts \cup CaptureHosts
  /\ probed = None

CallRunTCPStats ==
  /\ probed = None
  /\ host.probe = "tcp_stats"
  /\ probed' = RunTCPStats(host)
  /\ UNCHANGED <<svars, rvars, host>>

CallRunInterfaceStats ==
  /\ probed = None
  /\ host.probe = "interface_stats"
  /\ probed' = RunInterfaceStats(host)
  /\ UNCHANGED <<svars, rvars, host>>

CallRunPacketCapture ==
  /\ probed = None
  /\ host.probe = "packet_capture"
  /\ probed' = RunPacketCapture([end |-> host.end, stats |-> host.stats], FALSE)
  /\ UNCHANGED <<svars, rvars, host>>

NextProbe ==
  \/ CallRunTCPStats
  \/ CallRunInterfaceStats
  \/ CallRunPacketCapture

\* one call of one counter probe
SpecProbe == InitProbe /\ [][NextProbe]_vars

(***************************************************************************)
(* Claims.                                                                 *)
(***************************************************************************)
Returned == pc = "returned"

ReturnedRun == pc = "returned" /\ ret.err = ""

InRange(score) == FLE(FZero, score) /\ FLE(score, FInt(100))

\* C1: for every sequence of probe results the score that Analyze and
\* AnalyzeDetailed return, and the score stored on a returned Run, satisfy
\* 0 <= score <= 100.
C1_ScoreInRange ==
  /\ analysis # None => InRange(analysis.score)
  /\ ReturnedRun => InRange(ret.run.score)

NonNA(rs) == SelectSeq(rs, LAMBDA p : p.status # StatusNA)

\* C2: when a result other than NA remains, the score of a sequence equals
\* the score of the sequence with its NA results removed.
C2_NAExcluded ==
  (analysis # None /\ NonNA(input) # <<>>) =>
    analysis.score = AnalyzeDetailed(NonNA(input)).score

AllNA(rs) == Len(rs) > 0 /\ \A i \in 1..Len(rs) : rs[i].status = StatusNA

\* C3: the score is never the result of a division by a zero total weight
\* (it is always a finite number), and a sequence of NA results only has
\* the score of the empty sequence.
C3_AllNAAsEmpty ==
  analysis # None =>
    /\ analysis.score.k = "num"
    /\ AllNA(input) => analysis.score = AnalyzeDetailed(<<>>).score

C3_Witness ==
  /\ analysis # None
  /\ AllNA(input)
  /\ Len(input) >= 2
  /\ input[1].name # input[2].name

\* C4: replacing one OK result of a returned Run by a FAIL result of the same
\* probe strictly raises the score ExecuteRun stores.
C4_FailRaisesScore ==
  ReturnedRun =>
    \A i \in 1..Len(ret.run.probes) :
      ret.run.probes[i].status = StatusOK =>
        FLT(ret.run.score,
            RunScore([ret.run.probes EXCEPT ![i].status = StatusFail]))

HasResult(rs, name, status) ==
  \E i \in 1..Len(rs) : rs[i].name = name /\ rs[i].status = status

\* C5: the stored score is 100 minus the health value: a Run of OK probes
\* only is stored with a score below 20, and a Run with ping FAIL and dns
\* FAIL has health at most 10 and is stored with a score of at least 90.
C5_ScoreIsHundredMinusHealth ==
  ReturnedRun =>
    /\ (\A i \in 1..Len(ret.run.probes) : ret.run.probes[i].status = StatusOK)
         => FLT(ret.run.score, FInt(20))
    /\ (HasResult(ret.run.probes, "ping", StatusFail)
          /\ HasResult(ret.run.probes, "dns", StatusFail))
         => /\ FLE(Analyze(ret.run.probes).score, FInt(10))
            /\ FLE(FInt(90), ret.run.score)

\* equal when case is ignored
EqFold(a, b) ==
  Len(a) = Len(b) /\ \A i \in 1..Len(a) : ToUpperChar(a[i]) = ToUpperChar(b[i])

Matches(m, names) == \E r \in names : EqFold(m, r)

\* the table of the claim, as sets of probe names
ClaimedSelection(m) ==
  CASE Matches(m, {ModePing}) -> {"ping"}
    [] Matches(m, {ModeDNS}) -> {"dns"}
    [] Matches(m, {ModeTraceroute}) -> {"traceroute"}
    [] Matches(m, {ModeInterface, ModeInterfaceStats}) -> {"interface_stats"}
    [] Matches(m, {ModeTCP, ModeTCPStats}) -> {"tcp_stats"}
    [] Matches(m, {ModeSocket, ModeSocketStats}) -> {"socket_stats"}
    [] Matches(m, {ModeCapture, ModePacketCapture}) -> {"packet_capture"}
    [] Matches(m, {ModePacket, ModePacketHealth}) ->
         {"interface_stats", "tcp_stats", "socket_stats", "packet_capture"}
    [] Matches(m, {ModeFull, ModeDefault, ModeEmpty}) -> {"ping", "dns", "traceroute"}
    [] Matches(m, {ModeComprehensive, ModeAll}) ->
         {"ping", "dns", "traceroute", "interface_stats", "tcp_stats",
          "socket_stats", "packet_capture"}
    [] OTHER -> {}

Range(f) == {f[i] : i \in DOMAIN f}

\* C6: once ExecuteRun has selected, the probes selected are exactly those
\* of the table (mode compared ignoring case, each probe once), and the
\* unknown-mode error is returned exactly when the table selects nothing.
C6_ModeTable ==
  pc # "start" =>
    /\ Range(selected) = ClaimedSelection(mode)
    /\ Len(selected) = Cardinality(ClaimedSelection(mode))
    /\ (ClaimedSelection(mode) = {}) <=> (Returned /\ ret.err = ErrUnknownMode)

C6_Witness ==
  /\ pc # "start"
  /\ mode = ToUpper(ModePacketHealth)
  /\ Len(selected) = 4

\* C7: a live run whose mode matches no recognised value launches no probe,
\* records no probe or run metric, and returns the unknown-mode error with
\* an empty Run.
C7_UnknownModeFails ==
  ~Matches(mode, RecognisedModes) =>
    /\ pc \in {"start", "returned"}
    /\ calls = <<>>
    /\ wg = 0
    /\ probeResults = <<>>
    /\ probeMetrics = EmptyBag
    /\ runCounter = 0
    /\ Returned => ret = [err |-> ErrUnknownMode, run |-> EmptyRun]

C7_Witness == Returned /\ ~Matches(mode, RecognisedModes)

DeadlineFailure == [err |-> ErrDeadline, run |-> EmptyRun]

\* C8 as stated: when the deadline passed while a selected probe had not
\* delivered its result, ExecuteRun returns the deadline error and an
\* empty Run.
C8_DeadlineAlwaysFails == (Returned /\ late) => ret = DeadlineFailure

\* rs holds one result of every selected probe and nothing else
Complete(rs) ==
  /\ Len(rs) = Len(selected)
  /\ \A i \in Goroutines : \E j \in 1..Len(rs) : rs[j].name = selected[i]

\* C8 as amended: when the deadline passed while a selected probe had not
\* delivered its result, ExecuteRun returns either the deadline error and
\* an empty Run or, without error, a Run holding the result of every
\* selected probe; never a Run of a subset.
C8_NoPartialRun ==
  (Returned /\ late) =>
    \/ ret = DeadlineFailure
    \/ ret.err = "" /\ Complete(ret.run.probes)

C8_Witness ==
  /\ Returned
  /\ late
  /\ ret = DeadlineFailure
  /\ Len(probeResults) > 0
  /\ Len(probeResults) < Len(selected)

TimeoutErrors == {"ping timeout", "traceroute timeout", "lookup: i/o timeout"}

\* C9: a probe whose operation never returns on its own is reported to the
\* caller of ExecuteRun as a FAIL result with a timeout error.
C9_HungProbeReported ==
  Returned =>
    \A i \in hung :
      \E j \in 1..Len(ret.run.probes) :
        /\ ret.run.probes[j].name = selected[i]
        /\ ret.run.probes[j].status = StatusFail
        /\ ret.run.probes[j].err \in TimeoutErrors

\* C10: no selected probe is invoked twice, and a Run returned without error
\* holds exactly one result of each selected probe, each invoked once.
C10_OneResultPerProbe ==
  /\ \A i \in DOMAIN calls : calls[i] <= 1
  /\ ReturnedRun =>
       /\ Len(ret.run.probes) = Len(selected)
       /\ \A i \in Goroutines :
            /\ calls[i] = 1
            /\ Cardinality({j \in 1..Len(ret.run.probes) :
                              ret.run.probes[j].name = selected[i]}) = 1

C10_Witness ==
  /\ ReturnedRun
  /\ Len(ret.run.probes) = 3
  /\ ret.run.probes[1].name = "traceroute"
  /\ ret.run.probes[3].name = "ping"

ProbeNames(rs) == [j \in 1..Len(rs) |-> rs[j].name]

\* C11: the probes of a Run returned without error are in the order in which
\* selectProbes lists the mode's probes, whatever the order in which the
\* probe goroutines completed.
C11_RegistryOrder == ReturnedRun => ProbeNames(ret.run.probes) = selected

\* every field of the Run is filled in
FilledIn(run) ==
  /\ run.run_id # ""
  /\ run.timestamp # ""
  /\ run.score.k = "num"
  /\ ~SameText(run.summary, Lit(""))
  /\ Len(run.diagnosis) > 0

\* C12: ExecuteRun returns either an error and an empty Run, or no error
\* and a Run with run_id, timestamp, score, summary and a non-empty
\* diagnosis filled in and, on a live run, one result of each selected probe.
C12_ErrorOrCompleteRun ==
  Returned =>
    \/ ret.err # "" /\ ret.run = EmptyRun
    \/ /\ ret.err = ""
       /\ FilledIn(ret.run)
       /\ sim = None => Complete(ret.run.probes)

C12_Witness ==
  /\ Returned
  /\ ret.err = ""
  /\ sim # None
  /\ sim.run.summary = Lit("")
  /\ sim.run.probes = NilSlice

\* the next step of probe goroutine i
GoroutineStep(i) ==
  \/ ProbeCall(i)
  \/ RouteBlocks(i)
  \/ ProbeReturn(i)
  \/ RecordProbeMetrics(i)
  \/ Lock(i)
  \/ AppendRead(i)
  \/ AppendWrite(i)
  \/ Unlock(i)
  \/ WgDone(i)

Waiting == pc \in {"select", "blocked", "case_ctx", "case_done"}

Delivered(i) ==
  \E j \in 1..Len(probeResults) : probeResults[j].name = selected[i]

\* C13: when ExecuteRun waits, every selected probe has been started; a
\* started probe goroutine that has not finished can take its next step
\* unless its own operation blocks (until the deadline, or for ever in the
\* route lookup of packet_capture), or it waits for the mutex and the
\* goroutine holding the mutex can take its next step; and a goroutine past
\* its append has delivered its result.
C13_ProbesIndependent ==
  /\ Waiting => \A i \in Goroutines : gpc[i] # "new"
  /\ \A i \in Goroutines :
       /\ gpc[i] \notin {"new", "exit"} =>
            \/ ENABLED GoroutineStep(i)
            \/ gpc[i] = "run" /\ i \in hung /\ ~ctxDone
            \/ gpc[i] = "route"
            \/ gpc[i] = "lock" /\ mu \in Goroutines \ {i} /\ ENABLED GoroutineStep(mu)
       /\ gpc[i] \in {"unlock", "wgdone", "exit"} => Delivered(i)

C13_Witness ==
  /\ Waiting
  /\ ~ctxDone
  /\ \E i \in Goroutines : i \in hung /\ gpc[i] = "run"
  /\ \E i \in Goroutines :
       /\ gpc[i] = "exit"
       /\ \E j \in 1..Len(probeResults) :
            probeResults[j].name = selected[i] /\ probeResults[j].status = StatusFail
  /\ \E i \in Goroutines :
       /\ gpc[i] = "exit"
       /\ \E j \in 1..Len(probeResults) :
            probeResults[j].name = selected[i] /\ probeResults[j].status = StatusNA

\* the components of the entries analyzeProbeResult makes for a probe
ProbeComponents(name) ==
  CASE name = "ping" -> {"Connectivity"}
    [] name = "dns" -> {"DNS"}
    [] name = "interface_stats" -> {"NetworkInterface"}
    [] name = "tcp_stats" -> {"TCPTransport"}
    [] name = "packet_capture" -> {"PacketIntegrity", "TCPFlow", "NetworkPath"}
    [] OTHER -> {}

\* the entry is about the probe: by its component, or because its
\* explanation is a message that names the probe
RefersTo(e, name) ==
  /\ e.Component # "Overall"
  /\ \/ e.Component \in ProbeComponents(name)
     \/ e.Explanation.format = "[%s] %s: %s" /\ e.Explanation.args[2] = name
     \/ e.Explanation.format = "[%s] %s" /\ e.Explanation.args[1] = name

\* C15: for every result with status FAIL or WARN, with or without
\* details, the diagnosis of AnalyzeDetailed has an entry other than the
\* Overall entry that refers to that probe.
C15_FailWarnDiagnosed ==
  analysis # None =>
    \A i \in 1..Len(input) :
      input[i].status \in {StatusFail, StatusWarn} =>
        \E j \in 1..Len(analysis.diagnostics) :
          RefersTo(analysis.diagnostics[j], input[i].name)

C15_Witness ==
  /\ analysis # None
  /\ Len(input) = 2
  /\ input[1] = Result("http", StatusWarn, "")
  /\ input[2].name = "packet_capture"
  /\ input[2].status = StatusFail
  /\ input[2].details # NoDetails

AllOK(rs) == \A i \in 1..Len(rs) : rs[i].status = StatusOK

Excellent == Lit(SummaryExcellent)

\* C16: a mode=full Run whose ping, dns and traceroute results are all OK
\* has a health value of at least 90, the summary of the excellent band and
\* a diagnosis of exactly one entry, of component Overall and severity info.
C16_HealthyRun ==
  (ReturnedRun /\ ToLower(mode) = ModeFull /\ AllOK(ret.run.probes)) =>
    /\ FLE(FInt(90), AnalyzeDetailed(ret.run.probes).score)
    /\ SameText(ret.run.summary, Excellent)
    /\ Len(ret.run.diagnosis) = 1
    /\ ret.run.diagnosis[1].component = "Overall"
    /\ ret.run.diagnosis[1].severity = "info"

C16_Witness ==
  /\ ReturnedRun
  /\ mode = ModeFull
  /\ Len(ret.run.probes) = 3
  /\ AllOK(ret.run.probes)

\* C17: a result with status NA makes no diagnosis rule fire: the diagnosis
\* of a sequence has no more entries than the diagnosis of the sequence
\* without its NA results.
C17_NASilent ==
  analysis # None =>
    Len(analysis.diagnostics) <= Len(AnalyzeDetailed(NonNA(input)).diagnostics)

\* the error message names the probe and says timeout
NamesTimeout(name, err) == err = name \o " timeout"

\* C18: a probe whose operation is in flight when the run deadline expires
\* returns a FAIL result whose error names the probe and says timeout.
C18_TimeoutTranslated ==
  \A i \in Goroutines :
    (i \in hung /\ gres[i] # None) =>
      /\ gres[i].status = StatusFail
      /\ NamesTimeout(selected[i], gres[i].err)

\* the weights and credits as the claim lists them
ClaimedWeight(name) ==
  IF name \in {"interface_stats", "tcp_stats"} THEN FDiv(FInt(12), FInt(10))
  ELSE IF name \in {"traceroute", "socket_stats"} THEN FDiv(FInt(8), FInt(10))
  ELSE FInt(1)

ClaimedCredit(status) ==
  CASE status = StatusOK -> 100
    [] status = StatusWarn -> 60
    [] status = StatusFail -> 0

\* <<sum of weight * c(status), sum of weight>> over rs, in float64
RECURSIVE ClaimedSums(_)
ClaimedSums(rs) ==
  IF rs = <<>> THEN <<FZero, FZero>>
  ELSE LET front == ClaimedSums(SubSeq(rs, 1, Len(rs) - 1))
           p == rs[Len(rs)]
           w == ClaimedWeight(p.name)
       IN  <<FAdd(front[1], FMulInt(w, ClaimedCredit(p.status))), FAdd(front[2], w)>>

ClaimedHealth(rs) ==
  LET sums == ClaimedSums(NonNA(rs)) IN FDiv(sums[1], sums[2])

KnownStatuses(rs) ==
  \A i \in 1..Len(rs) : rs[i].status \in {StatusOK, StatusWarn, StatusFail, StatusNA}

\* C19: the health value of Analyze is the sum of weight * c(status) over
\* the results other than NA divided by the sum of their weights.
C19_WeightedMean ==
  (analysis # None /\ KnownStatuses(input) /\ NonNA(input) # <<>>) =>
    analysis.score = ClaimedHealth(input)

\* the band a summary belongs to, and whether it carries the annotation
BandOf(summary) ==
  CASE SameText(summary, Excellent) -> "excellent"
    [] summary.format \in {SummaryGood, SummaryGoodPacket} -> "good"
    [] summary.format \in {SummaryDegraded, SummaryDegradedPacket} -> "degraded"
    [] summary.format \in {SummaryCritical, SummaryCriticalPacket} -> "critical"
    [] OTHER -> "none"

Annotated(summary) ==
  summary.format \in {SummaryGoodPacket, SummaryDegradedPacket, SummaryCriticalPacket}

BandOfScore(score) ==
  IF FLE(FInt(90), score) THEN "excellent"
  ELSE IF FLE(FInt(70), score) THEN "good"
  ELSE IF FLE(FInt(50), score) THEN "degraded"
  ELSE "critical"

PacketProbeWith(rs, ok) ==
  \E i \in 1..Len(rs) :
    rs[i].name \in {"interface_stats", "tcp_stats", "packet_capture"}
      /\ rs[i].status \notin ok

\* C20 as stated: the summary is of the band of the health value and, in
\* each band, carries the packet-level annotation exactly when a result of
\* interface_stats, tcp_stats or packet_capture has a status other than OK.
C20_AnnotatedInEveryBand ==
  (analysis # None /\ input # <<>>) =>
    /\ BandOf(analysis.summary) = BandOfScore(analysis.score)
    /\ Annotated(analysis.summary) <=> PacketProbeWith(input, {StatusOK})

\* C20 as amended: the summary is of the band of the health value; below
\* 90 it carries the packet-level annotation exactly when a result of
\* interface_stats, tcp_stats or packet_capture has a status other than OK
\* and NA, and in the excellent band it never carries it.
C20_AnnotatedBelowExcellent ==
  (analysis # None /\ input # <<>>) =>
    /\ BandOf(analysis.summary) = BandOfScore(analysis.score)
    /\ Annotated(analysis.summary) <=>
         /\ BandOfScore(analysis.score) # "excellent"
         /\ PacketProbeWith(input, {StatusOK, StatusNA})

C20_Witness ==
  /\ analysis # None
  /\ SameText(analysis.summary, Excellent)
  /\ input[1] = Result("interface_stats", StatusWarn, "")

\* the positions of the entries of component Overall
OverallAt(d) == {j \in 1..Len(d) : d[j].Component = "Overall"}

\* the severity the claim gives the Overall entry
ClaimedSeverity(score) == IF FLE(FInt(70), score) THEN "info" ELSE "warning"

\* C21 (as stated): the diagnosis of AnalyzeDetailed has exactly one entry
\* of component Overall, it is the last entry, and its severity is info for
\* a health value of at least 70 and warning otherwise.
C21_OverallLast ==
  analysis # None =>
    /\ OverallAt(analysis.diagnostics) = {Len(analysis.diagnostics)}
    /\ analysis.diagnostics[Len(analysis.diagnostics)].Severity
         = ClaimedSeverity(analysis.score)

\* C21 (amended): the diagnosis of AnalyzeDetailed has exactly one entry of
\* component Overall; every entry before it is a per-probe entry, every
\* entry after it is a Network entry carrying a message of the simple
\* analysis; its severity is info for a health value of at least 70 and
\* warning otherwise.
C21_OverallBetween ==
  analysis # None =>
    \E j \in 1..Len(analysis.diagnostics) :
      /\ OverallAt(analysis.diagnostics) = {j}
      /\ \A i \in 1..(j - 1) : analysis.diagnostics[i].Component # "Network"
      /\ \A i \in (j + 1)..Len(analysis.diagnostics) :
           analysis.diagnostics[i].Component = "Network"
      /\ analysis.diagnostics[j].Severity = ClaimedSeverity(analysis.score)

C21_Witness ==
  /\ analysis # None
  /\ Len(analysis.diagnostics) = 3
  /\ analysis.diagnostics[1].Component = "Connectivity"
  /\ analysis.diagnostics[2].Component = "Overall"
  /\ analysis.diagnostics[2].Severity = "info"
  /\ analysis.diagnostics[3].Component = "Network"

\* ExecuteRun has loaded a simulation record that has no probes and leaves
\* score, summary and diagnosis to the analysis
EmptySimulation ==
  /\ ReturnedRun
  /\ sim # None
  /\ Len(ret.run.probes) = 0
  /\ sim.run.score = FZero
  /\ SameText(sim.run.summary, Lit(""))
  /\ Len(sim.run.diagnosis) = 0

\* the diagnosis entry says "no data"
IsNoData(e) ==
  \/ "message" \in DOMAIN e /\ SameText(e.message, Lit("no data"))
  \/ "explanation" \in DOMAIN e /\ SameText(e.explanation, Lit("no data"))

\* C22: the Run of an empty probe-result sequence has score 0, summary
\* "no probes executed" and a diagnosis of exactly one entry, "no data".
C22_EmptyRunNoData ==
  EmptySimulation =>
    /\ ret.run.score = FZero
    /\ SameText(ret.run.summary, Lit("no probes executed"))
    /\ Len(ret.run.diagnosis) = 1
    /\ IsNoData(ret.run.diagnosis[1])

\* the float64 stored under key k of the details of the probed result
RateOf(k) == probed.details[k].v

\* RunTCPStats has returned the result of readable counters
TCPProbed ==
  /\ probed # None
  /\ probed.name = "tcp_stats"
  /\ probed.details # NoDetails

\* C23: on Linux with readable counters RunTCPStats returns FAIL iff
\* retrans_rate > 5.0 or error_rate > 1.0, otherwise WARN iff
\* retrans_rate > 1.0 or error_rate > 0.1 or out-of-order rate > 1.0,
\* otherwise OK; no later check lowers a FAIL to WARN.
C23_TCPStatus ==
  TCPProbed =>
    probed.status =
      IF FLT(FInt(5), RateOf("retransmission_rate")) \/ FLT(FInt(1), RateOf("error_rate"))
      THEN StatusFail
      ELSE IF \/ FLT(FInt(1), RateOf("retransmission_rate"))
              \/ FLT(F01, RateOf("error_rate"))
              \/ FLT(FInt(1), RateOf("out_of_order_rate"))
      THEN StatusWarn
      ELSE StatusOK

C23_Witness ==
  /\ TCPProbed
  /\ probed.status = StatusFail
  /\ FLT(FInt(5), RateOf("retransmission_rate"))
  /\ FLT(F01, RateOf("error_rate"))
  /\ ~FLT(FInt(1), RateOf("error_rate"))
  /\ FLT(FInt(1), RateOf("out_of_order_rate"))

\* the percentage of num in den, 0 for a zero denominator (rounded as the
\* code rounds it: the quotient first, then the product with 100)
ClaimedRate(num, den) == IF den = 0 THEN FZero ELSE Rate(num, den)

\* the counters RunInterfaceStats summed
TotalsOf(stats) == InterfaceTotals(stats, 1, <<0, 0, 0, <<>>>>)

\* C24: the rates RunInterfaceStats and RunTCPStats report are
\* 100 * errors / total, with total the rx+tx packet count or the in+out
\* segment count, and are 0 when that total is 0; no rate is the result of
\* a division by a zero counter (it is a number, neither NaN nor +Inf).
C24_RatesOverTotal ==
  /\ TCPProbed =>
       /\ RateOf("retransmission_rate")
            = ClaimedRate(host.stats.RetransSegs, host.stats.InSegs + host.stats.OutSegs)
       /\ RateOf("error_rate")
            = ClaimedRate(host.stats.InErrs, host.stats.InSegs + host.stats.OutSegs)
       /\ RateOf("retransmission_rate").k = "num"
       /\ RateOf("error_rate").k = "num"
  /\ (probed # None /\ probed.name = "interface_stats" /\ probed.details # NoDetails) =>
       /\ RateOf("error_rate_percent")
            = ClaimedRate(TotalsOf(host.stats)[1], TotalsOf(host.stats)[3])
       /\ RateOf("drop_rate_percent")
            = ClaimedRate(TotalsOf(host.stats)[2], TotalsOf(host.stats)[3])

\* RunPacketCapture has returned the result of a capture
CaptureProbed ==
  /\ probed # None
  /\ probed.name = "packet_capture"
  /\ probed.details # NoDetails

\* the status the claim gives to the counters of a capture
ClaimedCaptureStatus(stats) ==
  IF \/ FLT(FInt(5), ClaimedRate(stats.TCPRetransmits, stats.TCPPackets))
     \/ stats.MalformedPackets > 0
     \/ stats.ChecksumErrors > 0
  THEN StatusFail
  ELSE IF \/ stats.PacketCount = 0
          \/ FLT(FInt(1), ClaimedRate(stats.TCPRetransmits, stats.TCPPackets))
          \/ stats.TCPOutOfOrder > 10
          \/ stats.TCPDuplicateAcks > 20
          \/ stats.TCPZeroWindow > 0
  THEN StatusWarn
  ELSE StatusOK

\* C25: when tcpdump ran, RunPacketCapture returns FAIL iff retrans_rate > 5%
\* or malformed > 0 or checksum errors > 0, otherwise WARN iff no packets
\* were captured or retrans_rate in (1%,5%] or out-of-order > 10 or
\* duplicate ACKs > 20 or zero-window events > 0, otherwise OK.
C25_CaptureStatus ==
  CaptureProbed => probed.status = ClaimedCaptureStatus(host.stats)

\* the counter of a packet_capture result, whether its stats are the struct
\* the live probe stores or the map a decoded record holds
CaptureCounter(p, field, key) ==
  IF ~HasKey(p.details, "stats") THEN 0
  ELSE IF p.details["stats"].t = "*PacketCaptureStats" THEN p.details["stats"].v[field]
  ELSE IF p.details["stats"].t = TMap /\ IsA(p.details["stats"].v, key, TFloat)
  THEN IF FLT(FZero, p.details["stats"].v[key].v) THEN 1 ELSE 0
  ELSE 0

\* the diagnosis of the Run has an entry of that component and severity
Diagnosed(run, component, severity) ==
  \E j \in 1..Len(run.diagnosis) :
    /\ "component" \in DOMAIN run.diagnosis[j]
    /\ run.diagnosis[j].component = component
    /\ run.diagnosis[j].severity = severity

\* C26: for every packet_capture result of a Run, live or loaded, the
\* diagnosis has a critical PacketIntegrity entry when checksum_errors > 0
\* and when malformed > 0.
C26_CaptureDiagnosed ==
  ReturnedRun =>
    \A i \in 1..Len(ret.run.probes) :
      (/\ ret.run.probes[i].name = "packet_capture"
       /\ \/ CaptureCounter(ret.run.probes[i], "ChecksumErrors", "checksum_errors") > 0
          \/ CaptureCounter(ret.run.probes[i], "MalformedPackets", "malformed_packets") > 0)
        => Diagnosed(ret.run, "PacketIntegrity", "critical")

SimFields ==
  {"run_id", "timestamp", "target", "mode", "score", "summary", "probes", "diagnosis"}

\* what json.Unmarshal leaves in a field whose key the file does not have
ZeroValue(field) ==
  CASE field = "mode" -> <<>>
    [] field = "score" -> FZero
    [] field = "summary" -> Lit("")
    [] field = "probes" -> NilSlice
    [] field = "diagnosis" -> <<>>
    [] OTHER -> ""

\* the file has the key of the field
PresentIn(file, field) == file.explicit \/ file.run[field] # ZeroValue(field)

\* the field of the returned Run is the one of the record
Kept(field) ==
  IF field = "probes" THEN ret.run.probes = sim.run.probes.elems
  ELSE ret.run[field] = sim.run[field]

\* C27: on the simulation path ExecuteRun calls no probe, returns every
\* field the record has unchanged, and returns a Run with a run_id.
C27_PresentFieldsKept ==
  (ReturnedRun /\ sim # None) =>
    /\ \A i \in 1..Len(calls) : calls[i] = 0
    /\ ret.run.run_id # ""
    /\ \A field \in SimFields : PresentIn(sim, field) => Kept(field)

\* the launch loop of ExecuteRun
LaunchStep ==
  \/ ExecSelect
  \/ \E i \in Goroutines : Spawn(i)
  \/ StartWaiter

\* the modes of the runs checked under fairness: the three probes of a full
\* run and one probe of each other kind of blocking operation
FairModes == {ModeFull, ModeSocket, ModeCapture, ModeBogus}

\* the scheduler lets ExecuteRun launch its goroutines and lets every
\* goroutine that can take a step take it; a command or lookup bound to
\* ctx ends once ctx is done
SpecRunFair ==
  /\ InitRunWith(FairModes)
  /\ [][NextRun]_vars
  /\ WF_vars(LaunchStep)
  /\ \A i \in 1..3 : WF_vars(i \in Goroutines /\ GoroutineStep(i))

\* every started probe goroutine has finished
AllProbesStopped == \A i \in Goroutines : gpc[i] = "exit"

\* C28: every process a probe starts is bound to the run's context: once
\* the deadline has fired, every probe goroutine in flight eventually ends.
C28_ProbesStopAfterDeadline == ctxDone ~> AllProbesStopped

\* the probe of goroutine i has returned and its event has been recorded
Recorded(i) == gpc[i] \in {"lock", "read", "write", "unlock", "wgdone", "exit"}

\* the probe events recorded under the name of a probe, whatever the status
EventsOf(name) ==
  {e \in BagToSet(probeMetrics) : e[1] = name}

\* C29: in a live run one probe event, carrying the probe's name and the
\* status of its result, is recorded for each probe that has completed and
\* none for the others; one run event is recorded when ExecuteRun returns
\* without error and none before or when it returns an error; and the
\* recording steps are never blocked.
C29_OneEventEach ==
  sim = None =>
    /\ \A i \in Goroutines :
         /\ Recorded(i) =>
              /\ Cardinality(EventsOf(selected[i])) = 1
              /\ \A e \in EventsOf(selected[i]) : CopiesIn(e, probeMetrics) = 1
         /\ ~Recorded(i) => EventsOf(selected[i]) = {}
         /\ gpc[i] = "metrics" => ENABLED RecordProbeMetrics(i)
    /\ \A j \in 1..Len(probeResults) :
         CopiesIn(<<probeResults[j].name, probeResults[j].status>>, probeMetrics) = 1
    /\ runCounter = (IF ReturnedRun THEN 1 ELSE 0)

C29_Witness ==
  /\ Returned
  /\ ret.err = ErrDeadline
  /\ runCounter = 0
  /\ Len(selected) = 3
  /\ Recorded(1)
  /\ Recorded(2)
  /\ gpc[3] = "run"

DiagnosisFields == {"component", "confidence", "explanation", "suggested_action", "severity"}

Severities == {"info", "warning", "critical"}

\* an entry of a Run's diagnosis in the structured form
Structured(entry) ==
  /\ DOMAIN entry = DiagnosisFields
  /\ entry.confidence.k = "num"
  /\ FLE(FZero, entry.confidence)
  /\ FLE(entry.confidence, FInt(1))
  /\ entry.severity \in Severities

\* the Run's diagnosis was computed: a live run, or a simulation whose file
\* carries no diagnosis
DiagnosisComputed == sim = None \/ Len(sim.run.diagnosis) = 0

\* the list AnalyzeDetailed returns for the results
DetailedOf(results) == AnalyzeDetailed(results).diagnostics

\* C30: AnalyzeDetailed returns a non-empty list for the results of every
\* returned Run, the empty sequence included; a returned Run whose diagnosis
\* was computed carries that list converted entry by entry, never the simple
\* messages, and each of its entries has exactly the five fields component,
\* confidence, explanation, suggested_action and severity with a confidence
\* in [0,1] and a severity among info, warning and critical.
C30_DetailedNeverEmpty ==
  /\ ReturnedRun => Len(DetailedOf(ret.run.probes)) > 0
  /\ (ReturnedRun /\ DiagnosisComputed) =>
       /\ ret.run.diagnosis = toDetailedDiagnosis(DetailedOf(ret.run.probes))
       /\ \A j \in 1..Len(ret.run.diagnosis) : Structured(ret.run.diagnosis[j])

C30_Witness ==
  /\ ReturnedRun
  /\ sim = None
  /\ Len(ret.run.probes) = 3
  /\ \A j \in 1..3 : ret.run.probes[j].status = StatusOK
  /\ Len(ret.run.diagnosis) = 1
  /\ ret.run.diagnosis[1].component = "Overall"

====
